---------------------------- MODULE Spec2Model ----------------------------
(***************************************************************************)
(* A model of the response-normalisation layer of the Recipe Chat          *)
(* Assistant: RecipeJSONParser (src/response_parser.py) and the record it  *)
(* builds, ParsedRecipe (src/models.py).                                   *)
(*                                                                         *)
(* A text is a sequence of characters; a character is a one-character      *)
(* string.  A Python value (what json.loads returns, what a field of the   *)
(* record holds) is a record [t |-> type tag, v |-> payload].              *)
(***************************************************************************)
EXTENDS Integers, Sequences, FiniteSets, TLC

(***************************************************************************)
(* Characters.                                                             *)
(***************************************************************************)
QUOTE == "\""
BACKSLASH == "\\"
NEWLINE == "\n"
\* U+2022, the bullet of the list-marker class [-•*]
BULLET == "BULLET"

Digits == {"0", "1", "2", "3", "4", "5", "6", "7", "8", "9"}

LowerLetters ==
    {"a", "b", "c", "d", "e", "f", "g", "h", "i", "j", "k", "l", "m",
     "n", "o", "p", "q", "r", "s", "t", "u", "v", "w", "x", "y", "z"}

UpperLetters ==
    {"A", "B", "C", "D", "E", "F", "G", "H", "I", "J", "K", "L", "M",
     "N", "O", "P", "Q", "R", "S", "T", "U", "V", "W", "X", "Y", "Z"}

\* the regular-expression class \s
IsSpace(c) == c \in {" ", "\t", "\n", "\r", "\f"}

\* the regular-expression class \d
IsDigit(c) == c \in Digits

\* the regular-expression class \w
IsWord(c) == c \in LowerLetters \cup UpperLetters \cup Digits \cup {"_"}

UpperSeq == <<"A", "B", "C", "D", "E", "F", "G", "H", "I", "J", "K", "L", "M",
              "N", "O", "P", "Q", "R", "S", "T", "U", "V", "W", "X", "Y", "Z">>

LowerSeq == <<"a", "b", "c", "d", "e", "f", "g", "h", "i", "j", "k", "l", "m",
              "n", "o", "p", "q", "r", "s", "t", "u", "v", "w", "x", "y", "z">>

\* str.lower() on one character
LowerChar(c) ==
    IF c \in UpperLetters
    THEN LowerSeq[CHOOSE i \in 1..26 : UpperSeq[i] = c]
    ELSE c

\* str.upper() on one character
UpperChar(c) ==
    IF c \in LowerLetters
    THEN UpperSeq[CHOOSE i \in 1..26 : LowerSeq[i] = c]
    ELSE c

\* str.lower()
Lower(s) == [i \in 1..Len(s) |-> LowerChar(s[i])]

\* str.title(): a letter is upper-cased after a non-letter, lower-cased after a letter
Title(s) ==
    [i \in 1..Len(s) |->
        IF i > 1 /\ s[i - 1] \in LowerLetters \cup UpperLetters
        THEN LowerChar(s[i])
        ELSE UpperChar(s[i])]

\* str.replace(a, b) for single characters
ReplaceChar(s, a, b) == [i \in 1..Len(s) |-> IF s[i] = a THEN b ELSE s[i]]

\* the suffix s[i..]
From(s, i) == SubSeq(s, i, Len(s))

\* whether pattern p occurs in s at position i
At(s, i, p) ==
    /\ i >= 1
    /\ i + Len(p) - 1 <= Len(s)
    /\ \A k \in 1..Len(p) : s[i + k - 1] = p[k]

\* `p in s`
Contains(s, p) == \E i \in 1..(Len(s) - Len(p) + 1) : At(s, i, p)

Least(S) == CHOOSE x \in S : \A y \in S : x <= y

Greatest(S) == CHOOSE x \in S : \A y \in S : x >= y

\* the least index >= i where p occurs in s, 0 when there is none
Find(s, p, i) ==
    LET found == {k \in i..(Len(s) - Len(p) + 1) : At(s, k, p)}
    IN  IF found = {} THEN 0 ELSE Least(found)

\* the index of the first non-space character at or after i (Len(s)+1 when none)
RECURSIVE SkipSpace(_, _)
SkipSpace(s, i) ==
    IF i <= Len(s) /\ IsSpace(s[i]) THEN SkipSpace(s, i + 1) ELSE i

\* the index of the first non-digit character at or after i
RECURSIVE SkipDigits(_, _)
SkipDigits(s, i) ==
    IF i <= Len(s) /\ IsDigit(s[i]) THEN SkipDigits(s, i + 1) ELSE i

\* the index of the first non-word character at or after i
RECURSIVE SkipWord(_, _)
SkipWord(s, i) ==
    IF i <= Len(s) /\ IsWord(s[i]) THEN SkipWord(s, i + 1) ELSE i

\* str.strip()
RECURSIVE RStrip(_)
RStrip(s) ==
    IF Len(s) > 0 /\ IsSpace(s[Len(s)]) THEN RStrip(SubSeq(s, 1, Len(s) - 1)) ELSE s

Strip(s) == RStrip(From(s, SkipSpace(s, 1)))

\* the concatenation of a sequence of texts
RECURSIVE Concat(_)
Concat(ss) == IF ss = <<>> THEN <<>> ELSE Head(ss) \o Concat(Tail(ss))

(***************************************************************************)
(* _clean_json: four global substitutions, in the order of the code.       *)
(***************************************************************************)
\* the match of r',<close>' at index k: the index of its last character, 0 when
\* there is no match at k (the pattern without \s*)
CommaMatch_Adjacent(s, close, k) ==
    IF s[k] = "," /\ k + 1 <= Len(s) /\ s[k + 1] = close THEN k + 1 ELSE 0

\* the match of r',\s*<close>' at index k: the index of its last character, 0 when
\* there is no match at k
CommaMatch(s, close, k) ==
    LET e == SkipSpace(s, k + 1)
    IN  IF s[k] = "," /\ e <= Len(s) /\ s[e] = close THEN e ELSE 0

\* re.sub(r',\s*<close>', '<close>', s) from index i on, match by match
RECURSIVE SubTrailingComma(_, _, _)
SubTrailingComma(s, close, i) ==
    LET starts == {k \in i..Len(s) : CommaMatch(s, close, k) > 0}
    IN  IF starts = {} THEN From(s, i)
        ELSE SubSeq(s, i, Least(starts) - 1) \o <<close>>
                 \o SubTrailingComma(s, close, CommaMatch(s, close, Least(starts)) + 1)

\* re.sub(r'//.*?\n', '\n', s) from index i on, match by match: '.' does not match
\* a newline, so a match runs from '//' to the first newline after it
RECURSIVE SubLineComment(_, _)
SubLineComment(s, i) ==
    LET a == Find(s, <<"/", "/">>, i)
        n == Find(s, <<NEWLINE>>, a + 2)
    IN  IF a = 0 \/ n = 0 THEN From(s, i)
        ELSE SubSeq(s, i, a - 1) \o <<NEWLINE>> \o SubLineComment(s, n + 1)

\* re.sub(r'/\*.*?\*/', '', s, flags=re.DOTALL) from index i on, match by match
RECURSIVE SubBlockComment(_, _)
SubBlockComment(s, i) ==
    LET a == Find(s, <<"/", "*">>, i)
        b == Find(s, <<"*", "/">>, a + 2)
    IN  IF a = 0 \/ b = 0 THEN From(s, i)
        ELSE SubSeq(s, i, a - 1) \o SubBlockComment(s, b + 2)

_clean_json(json_str) ==
    LET s1 == SubTrailingComma(json_str, "}", 1)
        s2 == SubTrailingComma(s1, "]", 1)
        s3 == SubLineComment(s2, 1)
    IN  SubBlockComment(s3, 1)

(***************************************************************************)
(* re.search(r'\{[\s\S]*\}', text): the span from the leftmost '{' to the  *)
(* rightmost '}' after it.                                                 *)
(***************************************************************************)
\* the greatest index <= i where the character c stands in s, 0 when there is none
RFind(s, c, i) ==
    LET found == {k \in 1..i : s[k] = c}
    IN  IF found = {} THEN 0 ELSE Greatest(found)

HasMatch(text) ==
    /\ Find(text, <<"{">>, 1) > 0
    /\ RFind(text, "}", Len(text)) > Find(text, <<"{">>, 1)

\* the span of the lazy pattern \{[\s\S]*?\}: it ends at the first '}' after the '{'
MatchGroup0_Lazy(text) ==
    SubSeq(text, Find(text, <<"{">>, 1), Find(text, <<"}">>, Find(text, <<"{">>, 1)))

MatchGroup0(text) == SubSeq(text, Find(text, <<"{">>, 1), RFind(text, "}", Len(text)))

(***************************************************************************)
(* Python values.                                                          *)
(***************************************************************************)
PyStr(s) == [t |-> "str", v |-> s]
PyInt(n) == [t |-> "int", v |-> n]
PyBool(b) == [t |-> "bool", v |-> b]
PyNone == [t |-> "NoneType", v |-> <<>>]
PyList(xs) == [t |-> "list", v |-> xs]
\* a dict is the sequence of its <<key, value>> items in insertion order; keys are texts
PyDict(items) == [t |-> "dict", v |-> items]

\* isinstance(x, ty)
IsInstance(x, ty) == x.t = ty

HasKey(d, k) == \E i \in 1..Len(d.v) : d.v[i][1] = k

\* dict.get(k, default)
Get(d, k, default) ==
    IF HasKey(d, k)
    THEN d.v[CHOOSE i \in 1..Len(d.v) : d.v[i][1] = k][2]
    ELSE default

\* d[k] = x on the item sequence: a key already present keeps its place
SetItem(items, k, x) ==
    IF \E i \in 1..Len(items) : items[i][1] = k
    THEN [i \in 1..Len(items) |-> IF items[i][1] = k THEN <<k, x>> ELSE items[i]]
    ELSE Append(items, <<k, x>>)

\* the decimal digits of a natural number
RECURSIVE NatToText(_)
NatToText(n) ==
    IF n < 10 THEN <<CHOOSE c \in Digits : c = ToString(n)>>
    ELSE NatToText(n \div 10) \o NatToText(n % 10)

IntToText(n) == IF n < 0 THEN <<"-">> \o NatToText(0 - n) ELSE NatToText(n)

\* one character of repr(str) between single quotes / between double quotes
ReprChar(c, q) ==
    IF c = BACKSLASH THEN <<BACKSLASH, BACKSLASH>>
    ELSE IF c = "\n" THEN <<BACKSLASH, "n">>
    ELSE IF c = "\t" THEN <<BACKSLASH, "t">>
    ELSE IF c = "\r" THEN <<BACKSLASH, "r">>
    ELSE IF c = "\f" THEN <<BACKSLASH, "x", "0", "c">>
    ELSE IF c = q THEN <<BACKSLASH, q>>
    ELSE <<c>>

\* repr(s) of a str: single quotes, double quotes when s holds ' and no "
ReprStr(s) ==
    LET q == IF Contains(s, <<"'">>) /\ ~Contains(s, <<QUOTE>>) THEN QUOTE ELSE "'"
    IN  <<q>> \o Concat([i \in 1..Len(s) |-> ReprChar(s[i], q)]) \o <<q>>

\* ', '.join(parts)
RECURSIVE JoinComma(_)
JoinComma(parts) ==
    IF parts = <<>> THEN <<>>
    ELSE IF Len(parts) = 1 THEN parts[1]
    ELSE parts[1] \o <<",", " ">> \o JoinComma(Tail(parts))

\* repr(x)
RECURSIVE Repr(_)
Repr(x) ==
    CASE x.t = "str" -> ReprStr(x.v)
      [] x.t = "int" -> IntToText(x.v)
      [] x.t = "bool" -> IF x.v THEN <<"T", "r", "u", "e">> ELSE <<"F", "a", "l", "s", "e">>
      [] x.t = "NoneType" -> <<"N", "o", "n", "e">>
      [] x.t = "list" ->
            <<"[">> \o JoinComma([i \in 1..Len(x.v) |-> Repr(x.v[i])]) \o <<"]">>
      [] x.t = "dict" ->
            <<"{">> \o JoinComma([i \in 1..Len(x.v) |->
                        ReprStr(x.v[i][1]) \o <<":", " ">> \o Repr(x.v[i][2])]) \o <<"}">>

\* str(x): the text of x; a str is itself
StrOf(x) == IF x.t = "str" THEN x ELSE PyStr(Repr(x))

(***************************************************************************)
(* json.loads (strict): a recursive-descent decoder.  A result is          *)
(* [e |-> "" or the exception raised, v |-> the value, i |-> the index     *)
(* after it].  Number literals are integers; a nesting deeper than         *)
(* RecursionLimit raises RecursionError, which is no JSONDecodeError.      *)
(***************************************************************************)
\* the interpreter's recursion limit, scaled to the size of the texts drawn
RecursionLimit == 4

DecodeError == [e |-> "JSONDecodeError", v |-> PyNone, i |-> 0]
DepthError == [e |-> "RecursionError", v |-> PyNone, i |-> 0]
Decoded(x, i) == [e |-> "", v |-> x, i |-> i]

\* json.decoder.WHITESPACE
IsJsonSpace(c) == c \in {" ", "\t", "\n", "\r"}

RECURSIVE SkipJsonSpace(_, _)
SkipJsonSpace(s, i) ==
    IF i <= Len(s) /\ IsJsonSpace(s[i]) THEN SkipJsonSpace(s, i + 1) ELSE i

\* the character an escape \c stands for, <<>> when \c is no escape
Unescape(c) ==
    IF c \in {QUOTE, BACKSLASH, "/"} THEN <<c>>
    ELSE IF c = "n" THEN <<"\n">>
    ELSE IF c = "t" THEN <<"\t">>
    ELSE IF c = "r" THEN <<"\r">>
    ELSE IF c = "f" THEN <<"\f">>
    ELSE <<>>

\* scanstring: i is the index after the opening quote
RECURSIVE ScanString(_, _, _)
ScanString(s, i, acc) ==
    IF i > Len(s) THEN DecodeError
    ELSE IF s[i] = QUOTE THEN Decoded(acc, i + 1)
    ELSE IF s[i] \in {"\n", "\t", "\r", "\f"} THEN DecodeError
    ELSE IF s[i] = BACKSLASH
         THEN IF i + 1 > Len(s) \/ Unescape(s[i + 1]) = <<>>
              THEN DecodeError
              ELSE ScanString(s, i + 2, acc \o Unescape(s[i + 1]))
    ELSE ScanString(s, i + 1, Append(acc, s[i]))

\* the value of a digit run
RECURSIVE DigitsValue(_, _, _, _)
DigitsValue(s, i, j, acc) ==
    IF i >= j THEN acc
    ELSE DigitsValue(s, i + 1, j, 10 * acc + (CHOOSE n \in 0..9 : ToString(n) = s[i]))

\* NUMBER_RE, integer part: -?(0|[1-9]\d*); i is the index of its first digit
ScanNat(s, i) ==
    IF s[i] = "0" THEN Decoded(PyInt(0), i + 1)
    ELSE Decoded(PyInt(DigitsValue(s, i, SkipDigits(s, i), 0)), SkipDigits(s, i))

RECURSIVE ScanOnce(_, _, _)
RECURSIVE ObjectItems(_, _, _, _)
RECURSIVE ArrayItems(_, _, _, _)

\* JSONObject after '{': i is the index after the brace
JSONObject(s, i, depth) ==
    LET j == SkipJsonSpace(s, i)
    IN  IF j > Len(s) THEN DecodeError
        ELSE IF s[j] = "}" THEN Decoded(PyDict(<<>>), j + 1)
        ELSE IF s[j] # QUOTE THEN DecodeError
        ELSE ObjectItems(s, j, depth, <<>>)

\* the members of an object: s[i] is the quote opening the next key
ObjectItems(s, i, depth, items) ==
    LET key == ScanString(s, i + 1, <<>>)
    IN  IF key.e # "" THEN key
        ELSE LET c == SkipJsonSpace(s, key.i)
             IN  IF c > Len(s) \/ s[c] # ":" THEN DecodeError
                 ELSE LET val == ScanOnce(s, SkipJsonSpace(s, c + 1), depth)
                      IN  IF val.e # "" THEN val
                          ELSE LET n == SkipJsonSpace(s, val.i)
                                   got == SetItem(items, key.v, val.v)
                               IN  IF n > Len(s) THEN DecodeError
                                   ELSE IF s[n] = "}" THEN Decoded(PyDict(got), n + 1)
                                   ELSE IF s[n] # "," THEN DecodeError
                                   ELSE LET k == SkipJsonSpace(s, n + 1)
                                        IN  IF k > Len(s) \/ s[k] # QUOTE
                                            THEN DecodeError
                                            ELSE ObjectItems(s, k, depth, got)

\* JSONArray after '[': i is the index after the bracket
JSONArray(s, i, depth) ==
    LET j == SkipJsonSpace(s, i)
    IN  IF j > Len(s) THEN DecodeError
        ELSE IF s[j] = "]" THEN Decoded(PyList(<<>>), j + 1)
        ELSE ArrayItems(s, j, depth, <<>>)

\* the elements of an array: i is the index where the next element starts
ArrayItems(s, i, depth, xs) ==
    LET val == ScanOnce(s, i, depth)
    IN  IF val.e # "" THEN val
        ELSE LET n == SkipJsonSpace(s, val.i)
                 got == Append(xs, val.v)
             IN  IF n > Len(s) THEN DecodeError
                 ELSE IF s[n] = "]" THEN Decoded(PyList(got), n + 1)
                 ELSE IF s[n] # "," THEN DecodeError
                 ELSE ArrayItems(s, SkipJsonSpace(s, n + 1), depth, got)

\* scan_once: the value that starts at s[i]; depth counts the open containers
ScanOnce(s, i, depth) ==
    IF i > Len(s) THEN DecodeError
    ELSE IF s[i] = QUOTE
         THEN LET str == ScanString(s, i + 1, <<>>)
              IN  IF str.e # "" THEN str ELSE Decoded(PyStr(str.v), str.i)
    ELSE IF s[i] \in {"{", "["}
         THEN IF depth + 1 > RecursionLimit THEN DepthError
              ELSE IF s[i] = "{" THEN JSONObject(s, i + 1, depth + 1)
              ELSE JSONArray(s, i + 1, depth + 1)
    ELSE IF At(s, i, <<"n", "u", "l", "l">>) THEN Decoded(PyNone, i + 4)
    ELSE IF At(s, i, <<"t", "r", "u", "e">>) THEN Decoded(PyBool(TRUE), i + 4)
    ELSE IF At(s, i, <<"f", "a", "l", "s", "e">>) THEN Decoded(PyBool(FALSE), i + 5)
    ELSE IF IsDigit(s[i]) THEN ScanNat(s, i)
    ELSE IF s[i] = "-" /\ i + 1 <= Len(s) /\ IsDigit(s[i + 1])
         THEN LET m == ScanNat(s, i + 1) IN Decoded(PyInt(0 - m.v.v), m.i)
    ELSE DecodeError

\* json.loads(s)
json_loads(s) ==
    LET r == ScanOnce(s, SkipJsonSpace(s, 1), 0)
    IN  IF r.e # "" THEN r
        ELSE IF SkipJsonSpace(s, r.i) # Len(s) + 1 THEN DecodeError
        ELSE r

(***************************************************************************)
(* ParsedRecipe (src/models.py) and the keys the parser reads and writes.  *)
(***************************************************************************)
K_name == <<"n", "a", "m", "e">>
K_title == <<"t", "i", "t", "l", "e">>
K_description == <<"d", "e", "s", "c", "r", "i", "p", "t", "i", "o", "n">>
K_prep_time == <<"p", "r", "e", "p", "_", "t", "i", "m", "e">>
K_prepTime == <<"p", "r", "e", "p", "T", "i", "m", "e">>
K_cook_time == <<"c", "o", "o", "k", "_", "t", "i", "m", "e">>
K_cookTime == <<"c", "o", "o", "k", "T", "i", "m", "e">>
K_servings == <<"s", "e", "r", "v", "i", "n", "g", "s">>
K_difficulty == <<"d", "i", "f", "f", "i", "c", "u", "l", "t", "y">>
K_ingredients == <<"i", "n", "g", "r", "e", "d", "i", "e", "n", "t", "s">>
K_instructions == <<"i", "n", "s", "t", "r", "u", "c", "t", "i", "o", "n", "s">>
K_steps == <<"s", "t", "e", "p", "s">>
K_tips == <<"t", "i", "p", "s">>
K_notes == <<"n", "o", "t", "e", "s">>
K_tags == <<"t", "a", "g", "s">>
K_categories == <<"c", "a", "t", "e", "g", "o", "r", "i", "e", "s">>
K_nutrition == <<"n", "u", "t", "r", "i", "t", "i", "o", "n">>
K_amount == <<"a", "m", "o", "u", "n", "t">>
K_item == <<"i", "t", "e", "m">>

\* ParsedRecipe(): every scalar field the empty text, every collection empty.
\* The four list fields are sequences of Python values; nutrition is the item
\* sequence of a dict.
ParsedRecipe ==
    [name |-> PyStr(<<>>), description |-> PyStr(<<>>), prep_time |-> PyStr(<<>>),
     cook_time |-> PyStr(<<>>), servings |-> PyStr(<<>>), difficulty |-> PyStr(<<>>),
     ingredients |-> <<>>, instructions |-> <<>>, tips |-> <<>>, tags |-> <<>>,
     nutrition |-> <<>>]

(***************************************************************************)
(* _parse_ingredient_string: four patterns tried in order, then the        *)
(* digit-led split, then the whole line as the item.  A match is the       *)
(* triple of its groups, <<>> when the pattern does not match.             *)
(***************************************************************************)
\* (.+)$ from index e on: at least one character, none of them a newline
RestOk(s, e) == e <= Len(s) /\ ~Contains(From(s, e), <<NEWLINE>>)

\* \s+(\w+(?:\s+\w+)?)\s+(.+)$ from index j on: <<group 2, group 3>> or <<>>.
\* The optional second word is taken when a space and a rest follow it.
UnitAndRest(s, j) ==
    LET a == SkipSpace(s, j)
        b == SkipWord(s, a)
        c == SkipSpace(s, b)
        d == SkipWord(s, c)
        e == SkipSpace(s, d)
    IN  IF ~(j <= Len(s) /\ a > j /\ b > a /\ c > b) THEN <<>>
        ELSE IF d > c /\ e > d /\ RestOk(s, e)
             THEN <<SubSeq(s, a, d - 1), From(s, e)>>
        ELSE IF RestOk(s, c) THEN <<SubSeq(s, a, b - 1), From(s, c)>>
        ELSE <<>>

\* the groups of a pattern whose first group ends before index j
WithGroup1(s, j) ==
    IF j = 0 \/ UnitAndRest(s, j) = <<>> THEN <<>>
    ELSE <<SubSeq(s, 1, j - 1)>> \o UnitAndRest(s, j)

\* the index after '<sep>\d+' at index i, i itself when that is not there
AfterOptional(s, i, sep) ==
    IF i <= Len(s) /\ s[i] = sep /\ SkipDigits(s, i + 1) > i + 1
    THEN SkipDigits(s, i + 1)
    ELSE i

\* the index after '<sep>\d+' at index i, 0 when that is not there
AfterRequired(s, i, sep) ==
    IF AfterOptional(s, i, sep) > i THEN AfterOptional(s, i, sep) ELSE 0

\* r'^(\d+(?:\.\d+)?(?:/\d+)?)\s+(\w+(?:\s+\w+)?)\s+(.+)$'
Pattern1(s) ==
    LET a == SkipDigits(s, 1)
    IN  IF a = 1 THEN <<>>
        ELSE WithGroup1(s, AfterOptional(s, AfterOptional(s, a, "."), "/"))

\* r'^(\d+/\d+)\s+(\w+(?:\s+\w+)?)\s+(.+)$'
Pattern2(s) ==
    LET a == SkipDigits(s, 1)
    IN  IF a = 1 THEN <<>> ELSE WithGroup1(s, AfterRequired(s, a, "/"))

\* r'^(\d+-\d+)\s+(\w+(?:\s+\w+)?)\s+(.+)$'
Pattern3(s) ==
    LET a == SkipDigits(s, 1)
    IN  IF a = 1 THEN <<>> ELSE WithGroup1(s, AfterRequired(s, a, "-"))

\* r'^(\d+)\s*\(([^)]+)\)\s+(.+)$': group 2 is what stands between the parentheses
Pattern4(s) ==
    LET a == SkipDigits(s, 1)
        p == SkipSpace(s, a)
        q == Find(s, <<")">>, p + 1)
        e == SkipSpace(s, q + 1)
    IN  IF a > 1 /\ p <= Len(s) /\ s[p] = "(" /\ q > p + 1 /\ e > q + 1 /\ RestOk(s, e)
        THEN <<SubSeq(s, 1, a - 1), SubSeq(s, p + 1, q - 1), From(s, e)>>
        ELSE <<>>

\* the first pattern of the list that matches
FirstMatch(s) ==
    IF Pattern1(s) # <<>> THEN Pattern1(s)
    ELSE IF Pattern2(s) # <<>> THEN Pattern2(s)
    ELSE IF Pattern3(s) # <<>> THEN Pattern3(s)
    ELSE Pattern4(s)

\* ing_str.split(None, 2) in the place of ing_str.split(' ', 2): at most three
\* parts, divided at runs of white space
Split2_OnRuns(s) ==
    LET e1 == Find(s, <<" ">>, 1)
        b2 == SkipSpace(s, e1)
        e2 == Find(s, <<" ">>, b2)
        b3 == SkipSpace(s, e2)
    IN  IF e1 = 0 THEN <<s>>
        ELSE IF e2 = 0 THEN <<SubSeq(s, 1, e1 - 1), From(s, b2)>>
        ELSE <<SubSeq(s, 1, e1 - 1), SubSeq(s, b2, e2 - 1), From(s, b3)>>

\* str.split(' ', 2)
Split2(s) ==
    LET p1 == Find(s, <<" ">>, 1)
        p2 == Find(s, <<" ">>, p1 + 1)
    IN  IF p1 = 0 THEN <<s>>
        ELSE IF p2 = 0 THEN <<SubSeq(s, 1, p1 - 1), From(s, p1 + 1)>>
        ELSE <<SubSeq(s, 1, p1 - 1), SubSeq(s, p1 + 1, p2 - 1), From(s, p2 + 1)>>

Ingredient(amount, item) ==
    PyDict(<< <<K_amount, PyStr(amount)>>, <<K_item, PyStr(item)>> >>)

\* the amount is the first group alone, the unit goes to the item
_parse_ingredient_string_NumberAlone(ing_str) ==
    LET s == Strip(ing_str)
        m == FirstMatch(s)
    IN  IF m # <<>>
        THEN Ingredient(Strip(m[1]), Strip(m[2] \o <<" ">> \o m[3]))
        ELSE Ingredient(<<>>, s)

_parse_ingredient_string(ing_str) ==
    LET s == Strip(ing_str)
        m == FirstMatch(s)
        parts == Split2(s)
    IN  IF m # <<>>
        THEN Ingredient(Strip(m[1] \o <<" ">> \o m[2]), Strip(m[3]))
        ELSE IF Len(s) > 0 /\ IsDigit(s[1]) /\ Len(parts) >= 2
        THEN Ingredient(Strip(parts[1] \o <<" ">> \o parts[2]),
                        IF Len(parts) > 2 THEN parts[3] ELSE parts[2])
        ELSE Ingredient(<<>>, s)

(***************************************************************************)
(* _parse_json_to_recipe                                                   *)
(***************************************************************************)
\* the loop over ingredients_data with the dict branch left out
RECURSIVE IngredientsOf_StringsOnly(_)
IngredientsOf_StringsOnly(xs) ==
    IF xs = <<>> THEN <<>>
    ELSE IF IsInstance(Head(xs), "str")
         THEN <<_parse_ingredient_string(Head(xs).v)>> \o IngredientsOf_StringsOnly(Tail(xs))
    ELSE IngredientsOf_StringsOnly(Tail(xs))

\* the loop over ingredients_data: a dict is appended as it is, a str is
\* tokenized, an entry of any other type is skipped
RECURSIVE IngredientsOf(_)
IngredientsOf(xs) ==
    IF xs = <<>> THEN <<>>
    ELSE IF IsInstance(Head(xs), "dict") THEN <<Head(xs)>> \o IngredientsOf(Tail(xs))
    ELSE IF IsInstance(Head(xs), "str")
         THEN <<_parse_ingredient_string(Head(xs).v)>> \o IngredientsOf(Tail(xs))
    ELSE IngredientsOf(Tail(xs))

\* [repr(x) for x in xs] in the place of [str(x) for x in xs]
StrList_Repr(xs) ==
    IF IsInstance(xs, "list") THEN [i \in 1..Len(xs.v) |-> PyStr(Repr(xs.v[i]))] ELSE <<>>

\* [str(x) for x in xs] when xs is a list, the field's default otherwise
StrList(xs) ==
    IF IsInstance(xs, "list") THEN [i \in 1..Len(xs.v) |-> StrOf(xs.v[i])] ELSE <<>>

\* data.get(first, data.get(second, default)), with the keys the wrong way round
GetEither_SecondFirst(data, first, second, default) ==
    Get(data, second, Get(data, first, default))

\* data.get(first, data.get(second, default))
GetEither(data, first, second, default) == Get(data, first, Get(data, second, default))

_parse_json_to_recipe(data) ==
    LET ingredients_data == Get(data, K_ingredients, PyList(<<>>))
        instructions_data == GetEither(data, K_instructions, K_steps, PyList(<<>>))
        tips_data == GetEither(data, K_tips, K_notes, PyList(<<>>))
        tags_data == GetEither(data, K_tags, K_categories, PyList(<<>>))
        nutrition_data == Get(data, K_nutrition, PyDict(<<>>))
    IN  [name |-> GetEither(data, K_name, K_title,
                      PyStr(<<"U", "n", "t", "i", "t", "l", "e", "d", " ",
                              "R", "e", "c", "i", "p", "e">>)),
         description |-> Get(data, K_description, PyStr(<<>>)),
         prep_time |-> StrOf(GetEither(data, K_prep_time, K_prepTime, PyStr(<<>>))),
         cook_time |-> StrOf(GetEither(data, K_cook_time, K_cookTime, PyStr(<<>>))),
         servings |-> StrOf(Get(data, K_servings, PyStr(<<>>))),
         difficulty |-> Get(data, K_difficulty, PyStr(<<>>)),
         ingredients |->
            IF IsInstance(ingredients_data, "list")
            THEN IngredientsOf(ingredients_data.v) ELSE <<>>,
         instructions |-> StrList(instructions_data),
         tips |-> StrList(tips_data),
         tags |-> StrList(tags_data),
         nutrition |->
            IF IsInstance(nutrition_data, "dict")
            THEN [i \in 1..Len(nutrition_data.v) |->
                    <<nutrition_data.v[i][1], StrOf(nutrition_data.v[i][2])>>]
            ELSE <<>>]

(***************************************************************************)
(* _parse_plain_text: the line-by-line segmenter and the tag scan.         *)
(***************************************************************************)
\* str.split('\n')
RECURSIVE SplitLines(_)
SplitLines(s) ==
    LET n == Find(s, <<NEWLINE>>, 1)
    IN  IF n = 0 THEN <<s>>
        ELSE <<SubSeq(s, 1, n - 1)>> \o SplitLines(From(s, n + 1))

\* re.sub(r'^[-•*]\s*', '', line)
StripBullet(line) ==
    IF Len(line) > 0 /\ line[1] \in {"-", BULLET, "*"}
    THEN From(line, SkipSpace(line, 2))
    ELSE line

\* re.sub(r'^\d+\.\s*', '', line)
StripNumber(line) ==
    LET a == SkipDigits(line, 1)
    IN  IF a > 1 /\ a <= Len(line) /\ line[a] = "."
        THEN From(line, SkipSpace(line, a + 1))
        ELSE line

\* re.sub(r'^Step\s+\d+:?\s*', '', line, flags=re.IGNORECASE)
StripStep(line) ==
    LET a == SkipSpace(line, 5)
        b == SkipDigits(line, a)
        c == IF b <= Len(line) /\ line[b] = ":" THEN b + 1 ELSE b
    IN  IF At(Lower(line), 1, <<"s", "t", "e", "p">>) /\ a > 5 /\ b > a
        THEN From(line, SkipSpace(line, c))
        ELSE line

\* the tests for the section a header line names, with the test for tips first
HeaderOf_TipsFirst(line_lower) ==
    IF \/ Contains(line_lower, <<"t", "i", "p">>)
       \/ Contains(line_lower, <<"n", "o", "t", "e">>)
    THEN "tips"
    ELSE IF Contains(line_lower, <<"i", "n", "g", "r", "e", "d", "i", "e", "n", "t">>)
    THEN "ingredients"
    ELSE IF \/ Contains(line_lower, <<"i", "n", "s", "t", "r", "u", "c", "t", "i", "o", "n">>)
            \/ Contains(line_lower, <<"d", "i", "r", "e", "c", "t", "i", "o", "n">>)
            \/ Contains(line_lower, <<"s", "t", "e", "p">>)
    THEN "instructions"
    ELSE ""

\* the section a header line names, "" for a line that is no header
HeaderOf(line_lower) ==
    IF Contains(line_lower, <<"i", "n", "g", "r", "e", "d", "i", "e", "n", "t">>)
    THEN "ingredients"
    ELSE IF \/ Contains(line_lower, <<"i", "n", "s", "t", "r", "u", "c", "t", "i", "o", "n">>)
            \/ Contains(line_lower, <<"d", "i", "r", "e", "c", "t", "i", "o", "n">>)
            \/ Contains(line_lower, <<"s", "t", "e", "p">>)
    THEN "instructions"
    ELSE IF \/ Contains(line_lower, <<"t", "i", "p">>)
            \/ Contains(line_lower, <<"n", "o", "t", "e">>)
    THEN "tips"
    ELSE ""

\* the loop body with current_section = None in the place of continue on a blank line
SegmentLine_BlankResets(st, raw_line) ==
    LET line == Strip(raw_line)
        header == HeaderOf(Lower(line))
        r == st.recipe
    IN  IF line = <<>> THEN [st EXCEPT !.current_section = ""]
        ELSE IF header # "" THEN [st EXCEPT !.current_section = header]
        ELSE IF st.current_section = "ingredients"
        THEN LET cleaned == StripNumber(StripBullet(line))
             IN  IF cleaned = <<>> THEN st
                 ELSE [st EXCEPT !.recipe.ingredients =
                           Append(r.ingredients, _parse_ingredient_string(cleaned))]
        ELSE IF st.current_section = "instructions"
        THEN LET cleaned == StripStep(StripNumber(StripBullet(line)))
             IN  IF cleaned = <<>> THEN st
                 ELSE [st EXCEPT !.recipe.instructions =
                           Append(r.instructions, PyStr(cleaned))]
        ELSE IF st.current_section = "tips"
        THEN LET cleaned == StripBullet(line)
             IN  IF cleaned = <<>> THEN st
                 ELSE [st EXCEPT !.recipe.tips = Append(r.tips, PyStr(cleaned))]
        ELSE st

\* the loop body with list.insert(0, x) in the place of list.append(x)
SegmentLine_Prepends(st, raw_line) ==
    LET line == Strip(raw_line)
        header == HeaderOf(Lower(line))
        r == st.recipe
    IN  IF line = <<>> THEN st
        ELSE IF header # "" THEN [st EXCEPT !.current_section = header]
        ELSE IF st.current_section = "ingredients"
        THEN LET cleaned == StripNumber(StripBullet(line))
             IN  IF cleaned = <<>> THEN st
                 ELSE [st EXCEPT !.recipe.ingredients =
                           <<_parse_ingredient_string(cleaned)>> \o r.ingredients]
        ELSE IF st.current_section = "instructions"
        THEN LET cleaned == StripStep(StripNumber(StripBullet(line)))
             IN  IF cleaned = <<>> THEN st
                 ELSE [st EXCEPT !.recipe.instructions = <<PyStr(cleaned)>> \o r.instructions]
        ELSE IF st.current_section = "tips"
        THEN LET cleaned == StripBullet(line)
             IN  IF cleaned = <<>> THEN st
                 ELSE [st EXCEPT !.recipe.tips = <<PyStr(cleaned)>> \o r.tips]
        ELSE st

\* one pass of the loop body: st is [current_section, recipe]; "" is None
SegmentLine(st, raw_line) ==
    LET line == Strip(raw_line)
        header == HeaderOf(Lower(line))
        r == st.recipe
    IN  IF line = <<>> THEN st
        ELSE IF header # "" THEN [st EXCEPT !.current_section = header]
        ELSE IF st.current_section = "ingredients"
        THEN LET cleaned == StripNumber(StripBullet(line))
             IN  IF cleaned = <<>> THEN st
                 ELSE [st EXCEPT !.recipe.ingredients =
                           Append(r.ingredients, _parse_ingredient_string(cleaned))]
        ELSE IF st.current_section = "instructions"
        THEN LET cleaned == StripStep(StripNumber(StripBullet(line)))
             IN  IF cleaned = <<>> THEN st
                 ELSE [st EXCEPT !.recipe.instructions =
                           Append(r.instructions, PyStr(cleaned))]
        ELSE IF st.current_section = "tips"
        THEN LET cleaned == StripBullet(line)
             IN  IF cleaned = <<>> THEN st
                 ELSE [st EXCEPT !.recipe.tips = Append(r.tips, PyStr(cleaned))]
        ELSE st

RECURSIVE SegmentLines(_, _, _)
SegmentLines(st, lines, i) ==
    IF i > Len(lines) THEN st
    ELSE SegmentLines(SegmentLine(st, lines[i]), lines, i + 1)

tag_keywords ==
    <<<<"h", "e", "a", "l", "t", "h", "y">>,
      <<"q", "u", "i", "c", "k">>,
      <<"e", "a", "s", "y">>,
      <<"v", "e", "g", "e", "t", "a", "r", "i", "a", "n">>,
      <<"v", "e", "g", "a", "n">>,
      <<"g", "l", "u", "t", "e", "n", "-", "f", "r", "e", "e">>,
      <<"d", "a", "i", "r", "y", "-", "f", "r", "e", "e">>,
      <<"l", "o", "w", "-", "c", "a", "r", "b">>,
      <<"k", "e", "t", "o">>,
      <<"p", "a", "l", "e", "o">>,
      <<"b", "u", "d", "g", "e", "t", "-", "f", "r", "i", "e", "n", "d", "l", "y">>,
      <<"f", "a", "m", "i", "l", "y", "-", "f", "r", "i", "e", "n", "d", "l", "y">>,
      <<"m", "e", "a", "l", "-", "p", "r", "e", "p">>,
      <<"o", "n", "e", "-", "p", "o", "t">>,
      <<"3", "0", "-", "m", "i", "n", "u", "t", "e">>,
      <<"1", "5", "-", "m", "i", "n", "u", "t", "e">>>>

\* the tags with the hyphens of the keywords kept
RECURSIVE TagsOf_KeepsHyphen(_, _)
TagsOf_KeepsHyphen(text_lower, i) ==
    IF i > Len(tag_keywords) THEN <<>>
    ELSE IF Contains(text_lower, tag_keywords[i])
         THEN <<PyStr(Title(tag_keywords[i]))>> \o TagsOf_KeepsHyphen(text_lower, i + 1)
         ELSE TagsOf_KeepsHyphen(text_lower, i + 1)

\* the tags of the keywords that occur in text_lower, in the order of the list
RECURSIVE TagsOf(_, _)
TagsOf(text_lower, i) ==
    IF i > Len(tag_keywords) THEN <<>>
    ELSE IF Contains(text_lower, tag_keywords[i])
         THEN <<PyStr(ReplaceChar(Title(tag_keywords[i]), "-", " "))>>
                  \o TagsOf(text_lower, i + 1)
         ELSE TagsOf(text_lower, i + 1)

_parse_plain_text(text) ==
    LET start == [current_section |-> "",
                  recipe |-> [ParsedRecipe EXCEPT
                                 !.name = PyStr(<<"R", "e", "c", "i", "p", "e">>)]]
        st == SegmentLines(start, SplitLines(text), 1)
    IN  [st.recipe EXCEPT !.tags = TagsOf(Lower(text), 1)]

(***************************************************************************)
(* parse_response as one function of the text: [e |-> the exception that   *)
(* leaves it ("" when it returns), recipe |-> what it returns].            *)
(***************************************************************************)
parse_response(text) ==
    IF HasMatch(text)
    THEN LET r == json_loads(_clean_json(MatchGroup0(text)))
         IN  IF r.e = "" THEN [e |-> "", recipe |-> _parse_json_to_recipe(r.v)]
             ELSE IF r.e = "JSONDecodeError"
                  THEN [e |-> "", recipe |-> _parse_plain_text(text)]
             ELSE [e |-> r.e, recipe |-> ParsedRecipe]
    ELSE [e |-> "", recipe |-> _parse_plain_text(text)]

(***************************************************************************)
(* The texts handed to parse_response.  Objects are written out as JSON by *)
(* Dumps, in a style: compact or one item per line, and with or without a  *)
(* comma (and white space) before the closing '}' and ']' of a container   *)
(* that has items.                                                         *)
(***************************************************************************)
\* one character of a JSON string literal
EscapeChar(c) ==
    IF c \in {QUOTE, BACKSLASH} THEN <<BACKSLASH, c>>
    ELSE IF c = "\n" THEN <<BACKSLASH, "n">>
    ELSE IF c = "\t" THEN <<BACKSLASH, "t">>
    ELSE IF c = "\r" THEN <<BACKSLASH, "r">>
    ELSE IF c = "\f" THEN <<BACKSLASH, "f">>
    ELSE <<c>>

Literal(s) == <<QUOTE>> \o Concat([i \in 1..Len(s) |-> EscapeChar(s[i])]) \o <<QUOTE>>

RECURSIVE JoinWith(_, _)
JoinWith(parts, sep) ==
    IF parts = <<>> THEN <<>>
    ELSE IF Len(parts) = 1 THEN parts[1]
    ELSE parts[1] \o sep \o JoinWith(Tail(parts), sep)

Compact == [nl |-> FALSE, brace |-> <<>>, bracket |-> <<>>]
Lined == [nl |-> TRUE, brace |-> <<>>, bracket |-> <<>>]

Container(open, parts, tail, close, st) ==
    IF parts = <<>> THEN <<open, close>>
    ELSE IF st.nl
         THEN <<open, NEWLINE>> \o JoinWith(parts, <<",", NEWLINE>>) \o tail
                  \o <<NEWLINE, close>>
    ELSE <<open>> \o JoinWith(parts, <<",", " ">>) \o tail \o <<close>>

RECURSIVE Dumps(_, _)
Dumps(x, st) ==
    CASE x.t = "str" -> Literal(x.v)
      [] x.t = "int" -> IntToText(x.v)
      [] x.t = "bool" -> IF x.v THEN <<"t", "r", "u", "e">> ELSE <<"f", "a", "l", "s", "e">>
      [] x.t = "NoneType" -> <<"n", "u", "l", "l">>
      [] x.t = "list" ->
            Container("[", [i \in 1..Len(x.v) |-> Dumps(x.v[i], st)], st.bracket, "]", st)
      [] x.t = "dict" ->
            Container("{", [i \in 1..Len(x.v) |->
                              Literal(x.v[i][1]) \o <<":", " ">> \o Dumps(x.v[i][2], st)],
                      st.brace, "}", st)

\* the sequences over the set S of length at most n
RECURSIVE SeqsUpTo(_, _)
SeqsUpTo(S, n) ==
    IF n = 0 THEN {<<>>}
    ELSE SeqsUpTo(S, n - 1) \cup
         {Append(q, x) : q \in {r \in SeqsUpTo(S, n - 1) : Len(r) = n - 1}, x \in S}

\* Bounds of the texts drawn.
MaxPost == 3
MaxLines == 2
MaxData == 2
MaxBraces == 3
MaxTokens == 3

\* string contents: plain ones, and ones that hold what _clean_json rewrites
T_X == <<"X">>
T_CommaBrace == <<"a", ",", "}">>
T_CommaBracket == <<",", " ", "]">>
T_Slashes == <<"/", "/", "b">>
T_Open == <<"/", "*">>
T_Close == <<"*", "/">>
T_Harmless == <<"a", ",", "b", "}", "/">>
T_Quoted == <<QUOTE, "h", "i", QUOTE, NEWLINE>>
T_Flour == <<"2", " ", "c", "u", "p", "s", " ", "f", "l", "o", "u", "r">>

Contents == {T_X, <<>>, T_CommaBrace, T_CommaBracket, T_Slashes, T_Open, T_Close,
             T_Harmless, T_Quoted}

\* whether the content holds what _clean_json looks for: a comma followed (across
\* white space) by '}' or ']', or '//', or '/*'
Rewritable(s) ==
    \/ \E i \in 1..Len(s), j \in 1..Len(s) :
          /\ i < j /\ s[i] = "," /\ s[j] \in {"}", "]"}
          /\ \A k \in (i + 1)..(j - 1) : IsSpace(s[k])
    \/ Contains(s, <<"/", "/">>)
    \/ Contains(s, <<"/", "*">>)

\* the contents of the string literals of a value, keys included
RECURSIVE StringsOf(_)
StringsOf(x) ==
    CASE x.t = "str" -> {x.v}
      [] x.t = "list" -> UNION {StringsOf(x.v[i]) : i \in 1..Len(x.v)}
      [] x.t = "dict" ->
            UNION {{x.v[i][1]} \cup StringsOf(x.v[i][2]) : i \in 1..Len(x.v)}
      [] OTHER -> {}

Unrewritable(x) == \A s \in StringsOf(x) : ~Rewritable(s)

PairEntry == PyDict(<< <<K_amount, PyStr(<<"1">>)>>, <<K_item, PyStr(<<"e", "g", "g">>)>> >>)

\* the values a key of a source object may hold, of every JSON type
Values ==
    {PyStr(T_X), PyStr(<<>>), PyInt(5), PyBool(TRUE), PyNone,
     PyList(<<PyStr(<<"a">>), PyStr(<<"b">>)>>),
     PyList(<<PyStr(T_Flour), PairEntry, PyDict(<< <<T_X, PyInt(1)>> >>), PyInt(3)>>),
     PyList(<<PyInt(12), PyNone, PyList(<<PyStr(<<"a">>)>>)>>),
     PyDict(<< <<<<"k", "c", "a", "l">>, PyInt(250)>>,
               <<<<"f", "a", "t">>, PyStr(<<"9", "g">>)>> >>)}

\* canonical key, alternate key
Synonyms ==
    {<<K_name, K_title>>, <<K_prep_time, K_prepTime>>, <<K_cook_time, K_cookTime>>,
     <<K_instructions, K_steps>>, <<K_tips, K_notes>>, <<K_tags, K_categories>>}

Keys ==
    {K_name, K_title, K_description, K_prep_time, K_prepTime, K_cook_time, K_cookTime,
     K_servings, K_difficulty, K_ingredients, K_instructions, K_steps, K_tips, K_notes,
     K_tags, K_categories, K_nutrition, <<"e", "x", "t", "r", "a">>}

\* source objects: one key, or both keys of a synonym pair in either order
Objects ==
    {PyDict(<< <<k, x>> >>) : k \in Keys, x \in Values}
    \cup {PyDict(<< <<p[1], x>>, <<p[2], y>> >>) : p \in Synonyms, x \in Values, y \in Values}
    \cup {PyDict(<< <<p[2], x>>, <<p[1], y>> >>) : p \in Synonyms, x \in Values, y \in Values}

\* an object of the canonical schema: all eleven fields, text leaves,
\* ingredients as {amount, item} pairs
Canonical(a, b) ==
    PyDict(<< <<K_name, PyStr(a)>>,
              <<K_description, PyStr(<<"d">>)>>,
              <<K_prep_time, PyStr(<<"5", " ", "m", "i", "n">>)>>,
              <<K_cook_time, PyStr(<<"3", "0">>)>>,
              <<K_servings, PyStr(<<"4">>)>>,
              <<K_difficulty, PyStr(<<"E", "a", "s", "y">>)>>,
              <<K_ingredients, PyList(<<PairEntry,
                    PyDict(<< <<K_amount, PyStr(<<"2">>)>>, <<K_item, PyStr(b)>> >>)>>)>>,
              <<K_instructions, PyList(<<PyStr(<<"M", "i", "x">>), PyStr(b)>>)>>,
              <<K_tips, PyList(<<PyStr(<<"h", "o", "t">>)>>)>>,
              <<K_tags, PyList(<<PyStr(<<"a">>), PyStr(<<"b">>)>>)>>,
              <<K_nutrition, PyDict(<< <<<<"f", "a", "t">>, PyStr(<<"9", "g">>)>> >>)>> >>)

\* the record of a canonical object: every field the source field
RecordOf(obj) ==
    [name |-> Get(obj, K_name, PyNone), description |-> Get(obj, K_description, PyNone),
     prep_time |-> Get(obj, K_prep_time, PyNone), cook_time |-> Get(obj, K_cook_time, PyNone),
     servings |-> Get(obj, K_servings, PyNone), difficulty |-> Get(obj, K_difficulty, PyNone),
     ingredients |-> Get(obj, K_ingredients, PyNone).v,
     instructions |-> Get(obj, K_instructions, PyNone).v,
     tips |-> Get(obj, K_tips, PyNone).v, tags |-> Get(obj, K_tags, PyNone).v,
     nutrition |-> Get(obj, K_nutrition, PyNone).v]

\* objects written with a trailing comma
Tagged(a) ==
    PyDict(<< <<K_name, PyStr(a)>>, <<K_tags, PyList(<<PyStr(<<"a">>), PyStr(<<"b">>)>>)>> >>)

Listed(a) ==
    PyDict(<< <<K_ingredients, PyList(<<PairEntry>>)>>, <<K_description, PyStr(a)>> >>)

TrailingCommas == {<<",">>, <<",", " ">>, <<",", NEWLINE, " ">>}

TrailingStyles ==
    {[nl |-> n, brace |-> b, bracket |-> k] :
        n \in BOOLEAN, b \in TrailingCommas \cup {<<>>}, k \in TrailingCommas \cup {<<>>}}
    \ {Compact, Lined}

\* what may stand before an object in a reply
Prefixes ==
    {<<>>,
     <<"S", "u", "r", "e", "!", "\n", "I", "n", "g", "r", "e", "d", "i", "e", "n", "t", "s", ":", "\n", "2", " ", "c", "u", "p", "s", " ", "f", "l", "o", "u", "r", "\n">>}

\* the pieces of what may stand after it
PostChunks ==
    {<<"}">>, <<QUOTE>>, T_Close, <<NEWLINE>>,
     <<"{", "\"", "t", "i", "t", "l", "e", "\"", ":", " ", "\"", "Y", "\"", "}">>}

Embedded ==
    {PyDict(<< <<K_name, PyStr(T_X)>> >>), PyDict(<< <<K_name, PyStr(T_Open)>> >>),
     PyDict(<< <<K_name, PyStr(T_Slashes)>> >>)}

\* the lines of a reply without JSON
Lines ==
    {<<"I", "n", "g", "r", "e", "d", "i", "e", "n", "t", "s", ":">>,
     <<"2", " ", "c", "u", "p", "s", " ", "f", "l", "o", "u", "r">>,
     <<"1", ".", "5", " ", "c", "u", "p", "s", " ", "f", "l", "o", "u", "r">>,
     <<"I", "n", "s", "t", "r", "u", "c", "t", "i", "o", "n", "s", ":">>,
     <<"1", ".", " ", "M", "i", "x", " ", "w", "e", "l", "l">>,
     <<"T", "i", "p", "s">>,
     <<"q", "u", "i", "c", "k", " ", "b", "a", "k", "e">>,
     <<>>,
     <<"S", "t", "e", "p", " ", "1", ":", " ", "M", "i", "x", " ", "w", "e", "l", "l">>,
     <<"T", "i", "p", "s", " ", "o", "n", " ", "i", "n", "g", "r", "e", "d", "i", "e", "n", "t", "s">>,
     <<"-">>}

\* the lines of a reply in two sections: under the ingredients header ...
L_Flour == <<"2", " ", "c", "u", "p", "s", " ", "f", "l", "o", "u", "r">>
L_Salt == <<"1", " ", "t", "s", "p", " ", "s", "a", "l", "t">>
L_Egg == <<"-", " ", "1", " ", "e", "g", "g">>
L_Can == <<"1", " ", "(", "1", "5", " ", "o", "z", ")", " ", "c", "a", "n", " ", "t", "o", "m", "a", "t", "o", "e", "s">>
IngredientLines == {L_Flour, L_Salt, L_Egg, L_Can}

\* ... and under the instructions header
L_Mix == <<"M", "i", "x", " ", "w", "e", "l", "l">>
L_Bake == <<"2", ".", " ", "B", "a", "k", "e">>
L_Stir == <<" ", "S", "t", "i", "r", " ">>
StepLines == {L_Mix, L_Bake, L_Stir}

\* an object nested d deep: {"a": {"a": ... 1 ... }}
RECURSIVE Nested(_)
Nested(d) == IF d = 0 THEN PyInt(1) ELSE PyDict(<< <<<<"a">>, Nested(d - 1)>> >>)

\* a list nested d deep under one key
RECURSIVE NestedList(_)
NestedList(d) == IF d = 0 THEN PyStr(T_X) ELSE PyList(<<NestedList(d - 1)>>)

\* what ingredient lines are made of: numbers, a range, words and, for a second
\* space or a space at an end, nothing
Numbers == {<<"2">>, <<"1", ".", "5">>, <<"1", "/", "2">>}
Ranges == {<<"2", "-", "3">>}
Words == {<<"c", "u", "p">>, <<"f", "l", "o", "u", "r">>}
Tokens == Numbers \cup Ranges \cup Words \cup {<<>>}

\* an object whose ingredients are one line, with the tokens the line is made of
GivenTokens(ts) ==
    [text |-> Dumps(PyDict(<< <<K_ingredients, PyList(<<PyStr(JoinWith(ts, <<" ">>))>>)>> >>),
                    Compact),
     fam |-> "tokens",
     obj |-> PyDict(<< <<K_ingredients, PyList(<<PyStr(JoinWith(ts, <<" ">>))>>)>> >>),
     style |-> Compact, pre |-> <<>>, post |-> <<>>,
     tokens |-> ts, line |-> JoinWith(ts, <<" ">>)]

\* longer texts of lines: a data line before and after a header, a header that
\* holds the keywords of two sections, and a reply of three sections
Documents ==
    {<<L_Flour, <<"I", "n", "g", "r", "e", "d", "i", "e", "n", "t", "s", ":">>, L_Flour>>,
     <<<<"T", "i", "p", "s">>,
       <<"T", "i", "p", "s", " ", "o", "n", " ", "i", "n", "g", "r", "e", "d", "i", "e", "n", "t", "s">>,
       L_Flour>>,
     <<<<"I", "n", "g", "r", "e", "d", "i", "e", "n", "t", "s", ":">>, L_Egg,
       <<"D", "i", "r", "e", "c", "t", "i", "o", "n", "s">>, L_Bake,
       <<"N", "o", "t", "e", "s", ":">>,
       <<"1", ".", " ", "U", "s", "e", " ", "f", "r", "e", "s", "h", " ", "b", "a", "s", "i", "l">>,
       <<"*", " ", "k", "e", "t", "o", ",", " ", "G", "l", "u", "t", "e", "n", "-", "F", "r", "e", "e", ",", " ", "K", "E", "T", "O">>>>}

\* objects written with comments and trailing commas together, each with the
\* object it is once the comments and the trailing commas are taken out:
\* a block comment and a line comment between a trailing comma and the closing
\* bracket, a line comment up to the end of the text, a line comment after a
\* comma between two members, a block comment before a trailing comma
Commented == {
    <<<<"{", QUOTE, "n", "a", "m", "e", QUOTE, ":", " ", QUOTE, "a", QUOTE, ",", " ", "/", "*", " ", "c", " ", "*", "/", " ", "}">>,
      PyDict(<< <<K_name, PyStr(<<"a">>)>> >>)>>,
    <<<<"{", QUOTE, "t", "a", "g", "s", QUOTE, ":", " ", "[", QUOTE, "a", QUOTE, ",", " ", "/", "/", " ", "c", NEWLINE, "]", "}">>,
      PyDict(<< <<K_tags, PyList(<<PyStr(<<"a">>)>>)>> >>)>>,
    <<<<"{", QUOTE, "n", "a", "m", "e", QUOTE, ":", " ", QUOTE, "a", QUOTE, "}", " ", "/", "/", " ", "{", "x", "}">>,
      PyDict(<< <<K_name, PyStr(<<"a">>)>> >>)>>,
    <<<<"{", QUOTE, "n", "a", "m", "e", QUOTE, ":", " ", QUOTE, "a", QUOTE, ",", " ", "/", "/", " ", "c", NEWLINE, QUOTE, "t", "a", "g", "s", QUOTE, ":", " ", "[", QUOTE, "a", QUOTE, "]", "}">>,
      PyDict(<< <<K_name, PyStr(<<"a">>)>>, <<K_tags, PyList(<<PyStr(<<"a">>)>>)>> >>)>>,
    <<<<"{", QUOTE, "n", "a", "m", "e", QUOTE, ":", " ", QUOTE, "a", QUOTE, " ", "/", "*", " ", "c", " ", "*", "/", ",", " ", "}">>,
      PyDict(<< <<K_name, PyStr(<<"a">>)>> >>)>>}

GivenText(fam, t, obj) ==
    [text |-> t, fam |-> fam, obj |-> obj, style |-> Compact, pre |-> <<>>, post |-> <<>>]

\* a text with what it was built from: family, object, style, prefix, suffix
Given(fam, obj, st, pre, post) ==
    [text |-> pre \o (IF fam \in {"lines", "braces"} THEN <<>> ELSE Dumps(obj, st)) \o post,
     fam |-> fam, obj |-> obj, style |-> st, pre |-> pre, post |-> post]

\* a text of two sections, with the lines it was built from
GivenSections(ings, steps) ==
    [text |-> JoinWith(<<<<"I", "n", "g", "r", "e", "d", "i", "e", "n", "t", "s", ":">>>> \o ings \o <<<<"I", "n", "s", "t", "r", "u", "c", "t", "i", "o", "n", "s", ":">>>> \o steps, <<NEWLINE>>),
     fam |-> "sections", obj |-> PyNone, style |-> Compact, pre |-> <<>>, post |-> <<>>,
     ingredient_lines |-> ings, step_lines |-> steps]

Inputs ==
    {Given("object", o, Compact, <<>>, <<>>) : o \in Objects}
    \cup {Given("canonical", Canonical(a, b), st, <<>>, <<>>) :
             a \in Contents, b \in Contents, st \in {Compact, Lined}}
    \cup {Given("trailing", o, st, <<>>, <<>>) :
             o \in {Tagged(a) : a \in Contents} \cup {Listed(a) : a \in Contents},
             st \in TrailingStyles}
    \cup {Given("embedded", o, Compact, pre, Concat(post)) :
             o \in Embedded, pre \in Prefixes, post \in SeqsUpTo(PostChunks, MaxPost)}
    \cup {Given("nested", o, Compact, <<>>, <<>>) :
             o \in {Nested(d) : d \in 1..(RecursionLimit + 1)}
                   \cup {PyDict(<< <<K_tags, NestedList(d)>> >>) : d \in 1..RecursionLimit}}
    \cup {Given("lines", PyNone, Compact, <<>>, JoinWith(ls, <<NEWLINE>>)) :
             ls \in SeqsUpTo(Lines, MaxLines) \cup Documents}
    \cup {Given("braces", PyNone, Compact, <<>>, t) :
             t \in SeqsUpTo({"{", "}", "x"}, MaxBraces)}
    \cup {GivenText("commented", c[1], c[2]) : c \in Commented}
    \cup {GivenTokens(ts) : ts \in SeqsUpTo(Tokens, MaxTokens)}
    \cup {GivenSections(ings, steps) :
             ings \in SeqsUpTo(IngredientLines, MaxData),
             steps \in SeqsUpTo(StepLines, MaxData)}

(***************************************************************************)
(* One call of parse_response, statement by statement.                     *)
(***************************************************************************)
VARIABLES
    text,        \* the argument
    given,       \* what the text was built from (not read by the parser)
    pc,          \* the statement the call is at
    json_str,    \* the matched span, then its cleaned form
    data,        \* what json.loads returned
    recipe,      \* the record returned
    via,         \* the function that built the record: "json", "plain_text"
    raised,      \* the exception that left parse_response, "" when none
    loads_calls  \* how often json.loads was called

vars == <<text, given, pc, json_str, data, recipe, via, raised, loads_calls>>

\* The window (src/main.py): RecipeChatApp, its APIWorker threads and its widgets.
VARIABLES
    api_client,      \* self.api_client: "None" or "client"
    current_worker,  \* self.current_worker: the index of a worker, 0 for None
    loading_widget,  \* self.loading_widget: the index of a widget, 0 when not yet set
    workers,         \* the APIWorker threads started, in the order of their start
    widgets,         \* the widgets made, in the order of their making
    chat_layout,     \* self.chat_layout: the indices of the widgets it holds
    events,          \* what is posted to the window's thread: queued signals of
                     \* the workers and deferred deletions, in the order of posting
    app              \* "running", or "aborted" once the process has been ended

app_vars ==
    <<api_client, current_worker, loading_widget, workers, widgets, chat_layout, events, app>>

\* Calls of parse_response that overlap on one RecipeJSONParser.
VARIABLES
    texts,           \* the texts calls are made with: for each the writes of a call
                     \* with it and the record parse_response gives for it alone
    calls,           \* the calls made: for each its text, its position and its locals
    heap             \* for each call the lists and dicts made in it, in the order
                     \* of their making; <<c, k>> refers to the k-th made in call c

calls_vars == <<texts, calls, heap>>

\* One request, from APIWorker.run to the window's slot.
VARIABLES
    provider,        \* self.config.provider of the client
    reply,           \* what requests.post gave
    cpc,             \* where the request is: "run", "posted", "answered", "emitted",
                     \* "handled"
    result,          \* what APIClient.send_message ended with
    signal,          \* the signal run emitted, "" before
    parsed,          \* whether the reply was handed to parse_response
    shown            \* the widget the slot added: "recipe", "error", "" before

client_vars == <<provider, reply, cpc, result, signal, parsed, shown>>

\* no request is about
ClientIdle ==
    /\ provider = "OpenAI"
    /\ reply = [transport |-> "", status |-> 0, body |-> ""]
    /\ cpc = "handled"
    /\ result = [kind |-> "", type |-> ""]
    /\ signal = ""
    /\ parsed = FALSE
    /\ shown = ""

\* RecipeChatApp.__init__ and init_ui: no client, no worker, the welcome bubble
AppInitial ==
    /\ api_client = "None"
    /\ current_worker = 0
    /\ loading_widget = 0
    /\ workers = <<>>
    /\ widgets = <<[kind |-> "welcome", life |-> "alive", of |-> 0]>>
    /\ chat_layout = <<1>>
    /\ events = <<>>
    /\ app = "running"

\* no call of parse_response yet, nothing made
CallsInitial == texts = <<>> /\ calls = <<>> /\ heap = <<>>

Init ==
    /\ \E g \in Inputs : text = g.text /\ given = g
    /\ pc = "search"
    /\ json_str = <<>>
    /\ data = PyNone
    /\ recipe = ParsedRecipe
    /\ via = ""
    /\ raised = ""
    /\ loads_calls = 0
    /\ AppInitial
    /\ CallsInitial
    /\ ClientIdle

\* json_match = re.search(...); the span when there is one, else the fallback
Search ==
    /\ pc = "search"
    /\ IF HasMatch(text)
       THEN json_str' = MatchGroup0(text) /\ pc' = "clean"
       ELSE json_str' = json_str /\ pc' = "plain_text"
    /\ UNCHANGED <<text, given, data, recipe, via, raised, loads_calls>>
    /\ UNCHANGED <<app_vars, calls_vars, client_vars>>

\* json_str = self._clean_json(json_str)
Clean ==
    /\ pc = "clean"
    /\ json_str' = _clean_json(json_str)
    /\ pc' = "loads"
    /\ UNCHANGED <<text, given, data, recipe, via, raised, loads_calls>>
    /\ UNCHANGED <<app_vars, calls_vars, client_vars>>

\* data = json.loads(json_str), under `except json.JSONDecodeError`
Loads ==
    /\ pc = "loads"
    /\ loads_calls' = loads_calls + 1
    /\ LET r == json_loads(json_str)
       IN  IF r.e = ""
           THEN data' = r.v /\ pc' = "to_recipe" /\ raised' = raised
           ELSE IF r.e = "JSONDecodeError"
                THEN data' = data /\ pc' = "plain_text" /\ raised' = raised
           ELSE data' = data /\ pc' = "raised" /\ raised' = r.e
    /\ UNCHANGED <<text, given, json_str, recipe, via>>
    /\ UNCHANGED <<app_vars, calls_vars, client_vars>>

\* return self._parse_json_to_recipe(data)
ToRecipe ==
    /\ pc = "to_recipe"
    /\ recipe' = _parse_json_to_recipe(data)
    /\ via' = "json"
    /\ pc' = "returned"
    /\ UNCHANGED <<text, given, json_str, data, raised, loads_calls>>
    /\ UNCHANGED <<app_vars, calls_vars, client_vars>>

\* the fallback handed the matched span instead of the text
PlainText_OnSpan ==
    /\ pc = "plain_text"
    /\ recipe' = _parse_plain_text(json_str)
    /\ via' = "plain_text"
    /\ pc' = "returned"
    /\ UNCHANGED <<text, given, json_str, data, raised, loads_calls>>
    /\ UNCHANGED <<app_vars, calls_vars, client_vars>>

\* return self._parse_plain_text(text)
PlainText ==
    /\ pc = "plain_text"
    /\ recipe' = _parse_plain_text(text)
    /\ via' = "plain_text"
    /\ pc' = "returned"
    /\ UNCHANGED <<text, given, json_str, data, raised, loads_calls>>
    /\ UNCHANGED <<app_vars, calls_vars, client_vars>>

Next == Search \/ Clean \/ Loads \/ ToRecipe \/ PlainText

Spec == Init /\ [][Next]_<<vars, app_vars, calls_vars, client_vars>>

\* parse_response is not running
NoCall ==
    /\ text = <<>>
    /\ given = Given("braces", PyNone, Compact, <<>>, <<>>)
    /\ pc = "returned"
    /\ json_str = <<>>
    /\ data = PyNone
    /\ recipe = ParsedRecipe
    /\ via = ""
    /\ raised = ""
    /\ loads_calls = 0

(***************************************************************************)
(* The window: the user's events, the worker threads and the slots that    *)
(* the workers' signals are queued to.                                     *)
(***************************************************************************)
\* Bound of the window's runs: the messages the user sends.
MaxSends == 2

\* a widget made for a worker (0: for none)
Widget(kind, of) == [kind |-> kind, life |-> "alive", of |-> of]

\* APIWorker.__init__: created, not yet run
APIWorker == [state |-> "started", calls |-> 0, requests |-> 0, emitted |-> <<>>, handled |-> FALSE]

\* QObject.deleteLater() on the widgets of the sequence ws: the widgets after it
DeleteLater(ws) ==
    [i \in 1..Len(widgets) |->
        IF (\E k \in 1..Len(ws) : ws[k] = i) /\ widgets[i].life = "alive"
        THEN [widgets[i] EXCEPT !.life = "deferred"]
        ELSE widgets[i]]

\* ... and the deletions it posts: one for each widget not yet up for deletion
Posted(ws) ==
    LET fresh == SelectSeq(ws, LAMBDA i : i # 0 /\ widgets[i].life = "alive")
    IN  [k \in 1..Len(fresh) |-> [signal |-> "DeferredDelete", of |-> fresh[k]]]

\* RecipeChatApp._save_settings: get_config() gives None or a configuration
_save_settings ==
    /\ app = "running"
    /\ \E config \in {"None", "config"} :
          api_client' = IF config = "None" THEN api_client ELSE "client"
    /\ UNCHANGED <<current_worker, loading_widget, workers, widgets, chat_layout, events, app>>
    /\ UNCHANGED <<vars, calls_vars, client_vars>>

\* RecipeChatApp.send_message, the slot of the send button and of the return key
send_message ==
    /\ app = "running"
    /\ \E message \in {"", "pasta"} :
          IF message = "" \/ api_client = "None"
          THEN UNCHANGED <<current_worker, loading_widget, workers, widgets, chat_layout>>
          ELSE /\ Len(workers) < MaxSends
               /\ widgets' = widgets \o <<Widget("user", 0), Widget("loading", 0)>>
               /\ chat_layout' = chat_layout \o <<Len(widgets) + 1, Len(widgets) + 2>>
               /\ loading_widget' = Len(widgets) + 2
               /\ workers' = Append(workers, APIWorker)
               /\ current_worker' = Len(workers) + 1
    /\ UNCHANGED <<api_client, events, app>>
    /\ UNCHANGED <<vars, calls_vars, client_vars>>

\* RecipeChatApp._clear_chat: every item but the first is taken and deleted later
_clear_chat ==
    /\ app = "running"
    /\ chat_layout' = <<chat_layout[1]>>
    /\ widgets' = DeleteLater(Tail(chat_layout))
    /\ events' = events \o Posted(Tail(chat_layout))
    /\ UNCHANGED <<api_client, current_worker, loading_widget, workers, app>>
    /\ UNCHANGED <<vars, calls_vars, client_vars>>

\* the event loop delivers a deferred deletion: the widget is deleted and its
\* layout drops it
DeferredDelete ==
    /\ app = "running"
    /\ events # <<>> /\ Head(events).signal = "DeferredDelete"
    /\ events' = Tail(events)
    /\ widgets' = [widgets EXCEPT ![Head(events).of].life = "deleted"]
    /\ chat_layout' = SelectSeq(chat_layout, LAMBDA j : j # Head(events).of)
    /\ UNCHANGED <<api_client, current_worker, loading_widget, workers, app>>
    /\ UNCHANGED <<vars, calls_vars, client_vars>>

\* APIWorker.run up to the request: one call of APIClient.send_message, which
\* posts one HTTP request in the provider's method
Run_SendMessage ==
    /\ app = "running"
    /\ \E w \in 1..Len(workers) :
          /\ workers[w].state = "started"
          /\ workers' = [workers EXCEPT ![w].state = "requesting",
                                        ![w].calls = @ + 1,
                                        ![w].requests = @ + 1]
    /\ UNCHANGED <<api_client, current_worker, loading_widget, widgets, chat_layout, events, app>>
    /\ UNCHANGED <<vars, calls_vars, client_vars>>

\* the signal run emits for what send_message gave: a text is emitted as
\* response_ready; a value that is no text makes response_ready.emit raise
\* TypeError, which the except clause turns into error_occurred, as it does an
\* exception of send_message
SignalFor(outcome) == IF outcome = "text" THEN "response_ready" ELSE "error_occurred"

\* APIWorker.run from the answer on: the signal is queued to the window's thread
Run_Emit ==
    /\ app = "running"
    /\ \E w \in 1..Len(workers), outcome \in {"text", "not_text", "raised"} :
          /\ workers[w].state = "requesting"
          /\ workers' = [workers EXCEPT ![w].state = "emitted",
                                        ![w].emitted = Append(@, SignalFor(outcome))]
          /\ events' = Append(events, [signal |-> SignalFor(outcome), of |-> w])
    /\ UNCHANGED <<api_client, current_worker, loading_widget, widgets, chat_layout, app>>
    /\ UNCHANGED <<vars, calls_vars, client_vars>>

\* run returns.  A worker that self.current_worker no longer names has no owner
\* left but its own running frame: its QThread is destroyed while the thread still
\* runs, which ends the process or goes unnoticed
Run_Return ==
    /\ app = "running"
    /\ \E w \in 1..Len(workers) :
          /\ workers[w].state = "emitted"
          /\ workers' = [workers EXCEPT ![w].state = "finished"]
          /\ IF current_worker = w THEN app' = app
             ELSE \E fate \in {"running", "aborted"} : app' = fate
    /\ UNCHANGED <<api_client, current_worker, loading_widget, widgets, chat_layout, events>>
    /\ UNCHANGED <<vars, calls_vars, client_vars>>

\* the body shared by _handle_response and _handle_error for the queued signal at
\* the head: self.loading_widget.deleteLater(), then the widget of the outcome is
\* added.  deleteLater() on a widget already deleted raises RuntimeError: the slot
\* ends there, and the unhandled exception ends the process or is only reported
Handle(kind) ==
    /\ workers' = [workers EXCEPT ![Head(events).of].handled = TRUE]
    /\ IF loading_widget # 0 /\ widgets[loading_widget].life = "deleted"
       THEN /\ \E fate \in {"running", "aborted"} : app' = fate
            /\ events' = Tail(events)
            /\ UNCHANGED <<widgets, chat_layout>>
       ELSE /\ widgets' = Append(DeleteLater(<<loading_widget>>), Widget(kind, Head(events).of))
            /\ events' = Tail(events) \o Posted(<<loading_widget>>)
            /\ chat_layout' = Append(chat_layout, Len(widgets) + 1)
            /\ app' = app
    /\ UNCHANGED <<api_client, current_worker, loading_widget>>
    /\ UNCHANGED <<vars, calls_vars, client_vars>>

\* RecipeChatApp._handle_response, the slot of response_ready
_handle_response ==
    /\ app = "running"
    /\ events # <<>> /\ Head(events).signal = "response_ready"
    /\ Handle("recipe")

\* RecipeChatApp._handle_error, the slot of error_occurred
_handle_error ==
    /\ app = "running"
    /\ events # <<>> /\ Head(events).signal = "error_occurred"
    /\ Handle("error")

AppInit == AppInitial /\ NoCall /\ CallsInitial /\ ClientIdle

AppNext ==
    \/ _save_settings
    \/ send_message
    \/ _clear_chat
    \/ DeferredDelete
    \/ Run_SendMessage
    \/ Run_Emit
    \/ Run_Return
    \/ _handle_response
    \/ _handle_error

AppSpec == AppInit /\ [][AppNext]_<<vars, app_vars, calls_vars, client_vars>>

(***************************************************************************)
(* Calls of parse_response on one RecipeJSONParser that run interleaved,   *)
(* with the lists and dicts of their records kept in a heap, and the       *)
(* callers' own appends to the records they were given.                    *)
(***************************************************************************)
\* Bound of these runs: the calls made.
MaxCalls == 2

Fields == {"ingredients", "instructions", "tips", "tags", "nutrition"}

\* the order in which ParsedRecipe() makes the containers of its fields
FieldOrder == <<"ingredients", "instructions", "tips", "tags", "nutrition">>

\* the containers of the record of call c, were the defaults five objects made once
\* (with the first record) in the place of default_factory
default_factory_Shared(c) ==
    [ingredients |-> <<1, 1>>, instructions |-> <<1, 2>>, tips |-> <<1, 3>>,
     tags |-> <<1, 4>>, nutrition |-> <<1, 5>>]

\* field(default_factory=list) and field(default_factory=dict): the containers
\* ParsedRecipe() makes for the record of call c
default_factory(c) ==
    [ingredients |-> <<c, 1>>, instructions |-> <<c, 2>>, tips |-> <<c, 3>>,
     tags |-> <<c, 4>>, nutrition |-> <<c, 5>>]

\* recipe.<field>.append(x) for each x of items, in order
AppendsTo(field, items) ==
    [i \in 1..Len(items) |-> [op |-> "append", field |-> field, value |-> items[i]]]

\* recipe.<field> = items, done when x passed the isinstance test
BindTo(field, x, ty, items) ==
    IF IsInstance(x, ty) THEN <<[op |-> "bind", field |-> field, value |-> items]>> ELSE <<>>

\* the writes of _parse_json_to_recipe to the record's containers, in program order
JsonWrites(d) ==
    LET ingredients_data == Get(d, K_ingredients, PyList(<<>>))
        instructions_data == GetEither(d, K_instructions, K_steps, PyList(<<>>))
        tips_data == GetEither(d, K_tips, K_notes, PyList(<<>>))
        tags_data == GetEither(d, K_tags, K_categories, PyList(<<>>))
        nutrition_data == Get(d, K_nutrition, PyDict(<<>>))
    IN  (IF IsInstance(ingredients_data, "list")
         THEN AppendsTo("ingredients", IngredientsOf(ingredients_data.v)) ELSE <<>>)
        \o BindTo("instructions", instructions_data, "list", StrList(instructions_data))
        \o BindTo("tips", tips_data, "list", StrList(tips_data))
        \o BindTo("tags", tags_data, "list", StrList(tags_data))
        \o BindTo("nutrition", nutrition_data, "dict", _parse_json_to_recipe(d).nutrition)

\* the appends of the loop of _parse_plain_text from line i on: one for each pass
\* of the loop body that appends
RECURSIVE LineWrites(_, _, _)
LineWrites(st, lines, i) ==
    IF i > Len(lines) THEN <<>>
    ELSE LET after == SegmentLine(st, lines[i])
             grown == {f \in Fields : Len(after.recipe[f]) > Len(st.recipe[f])}
         IN  (IF grown = {} THEN <<>>
              ELSE LET f == CHOOSE g \in grown : TRUE
                   IN  AppendsTo(f, <<after.recipe[f][Len(after.recipe[f])]>>))
             \o LineWrites(after, lines, i + 1)

\* the writes of _parse_plain_text: those of the loop, then the appends of the tags
PlainWrites(t) ==
    LineWrites([current_section |-> "", recipe |-> ParsedRecipe], SplitLines(t), 1)
    \o AppendsTo("tags", TagsOf(Lower(t), 1))

\* the writes of one call of parse_response to the containers of its record
Writes(t) ==
    IF HasMatch(t) /\ json_loads(_clean_json(MatchGroup0(t))).e = ""
    THEN JsonWrites(json_loads(_clean_json(MatchGroup0(t))).v)
    ELSE PlainWrites(t)

\* the texts of the calls: an object with ingredients of both kinds and every
\* other container, an object with one ingredient and tags that are no list, and a
\* text of two sections
CallTexts ==
    <<Dumps(PyDict(<< <<K_ingredients, PyList(<<PyStr(L_Flour), PairEntry>>)>>,
                     <<K_steps, PyList(<<PyStr(L_Mix)>>)>>,
                     <<K_tips, PyList(<<PyStr(T_X)>>)>>,
                     <<K_tags, PyList(<<PyStr(T_X)>>)>>,
                     <<K_nutrition, PyDict(<< <<T_X, PyInt(1)>> >>)>> >>), Compact),
     Dumps(PyDict(<< <<K_ingredients, PyList(<<PyStr(L_Salt)>>)>>,
                     <<K_tags, PyInt(1)>> >>), Compact),
     GivenSections(<<L_Flour, L_Egg>>, <<L_Mix>>).text>>


\* what a caller adds to a container of a record it was given
Mark(field) ==
    IF field = "nutrition" THEN <<<<"+">>, PyStr(<<"+">>)>> ELSE PyStr(<<"+">>)

\* parse_response is called with one of the texts (text: its index)
Call ==
    /\ Len(calls) < MaxCalls
    /\ \E t \in 1..Len(texts) :
          calls' = Append(calls, [text |-> t, state |-> "called", done |-> 0,
                                  refs |-> [f \in Fields |-> <<>>], marked |-> FALSE])
    /\ heap' = Append(heap, <<>>)
    /\ UNCHANGED texts
    /\ UNCHANGED <<vars, app_vars, client_vars>>

\* recipe = ParsedRecipe(), in _parse_json_to_recipe or in _parse_plain_text
Construct ==
    /\ \E c \in 1..Len(calls) :
          /\ calls[c].state = "called"
          /\ LET refs == default_factory(c)
                 made == {k \in 1..Len(FieldOrder) : refs[FieldOrder[k]] = <<c, k>>}
             IN  /\ heap' = [heap EXCEPT ![c] = [k \in 1..Cardinality(made) |-> <<>>]]
                 /\ calls' = [calls EXCEPT ![c].state = "constructed", ![c].refs = refs]
    /\ UNCHANGED texts
    /\ UNCHANGED <<vars, app_vars, client_vars>>

\* the next write of a call to its record: an append to the container the field
\* names, or a new container bound to the field
Write ==
    /\ \E c \in 1..Len(calls) :
          /\ calls[c].state = "constructed"
          /\ calls[c].done < Len(texts[calls[c].text].writes)
          /\ LET w == texts[calls[c].text].writes[calls[c].done + 1]
                 id == calls[c].refs[w.field]
             IN  IF w.op = "append"
                 THEN /\ heap' = [heap EXCEPT ![id[1]][id[2]] = Append(@, w.value)]
                      /\ calls' = [calls EXCEPT ![c].done = @ + 1]
                 ELSE /\ heap' = [heap EXCEPT ![c] = Append(@, w.value)]
                      /\ calls' = [calls EXCEPT ![c].done = @ + 1,
                                                ![c].refs[w.field] = <<c, Len(heap[c]) + 1>>]
    /\ UNCHANGED texts
    /\ UNCHANGED <<vars, app_vars, client_vars>>

\* return recipe
Return ==
    /\ \E c \in 1..Len(calls) :
          /\ calls[c].state = "constructed"
          /\ calls[c].done = Len(texts[calls[c].text].writes)
          /\ calls' = [calls EXCEPT ![c].state = "returned"]
    /\ UNCHANGED <<texts, heap>>
    /\ UNCHANGED <<vars, app_vars, client_vars>>

\* the caller of a call that returned adds an entry of its own to each container
\* of the record it was given
Mutate ==
    /\ \E c \in 1..Len(calls) :
          /\ calls[c].state = "returned"
          /\ ~calls[c].marked
          /\ heap' = [d \in 1..Len(heap) |-> [k \in 1..Len(heap[d]) |->
                         IF \E f \in Fields : calls[c].refs[f] = <<d, k>>
                         THEN Append(heap[d][k],
                                     Mark(CHOOSE f \in Fields : calls[c].refs[f] = <<d, k>>))
                         ELSE heap[d][k]]]
          /\ calls' = [calls EXCEPT ![c].marked = TRUE]
    /\ UNCHANGED texts
    /\ UNCHANGED <<vars, app_vars, client_vars>>

CallsInit ==
    /\ AppInitial /\ NoCall /\ ClientIdle
    /\ texts = [k \in 1..Len(CallTexts) |->
                   [text |-> CallTexts[k], writes |-> Writes(CallTexts[k]),
                    alone |-> parse_response(CallTexts[k]).recipe]]
    /\ calls = <<>> /\ heap = <<>>

CallsNext == Call \/ Construct \/ Write \/ Return \/ Mutate

CallsSpec == CallsInit /\ [][CallsNext]_<<vars, app_vars, calls_vars, client_vars>>

(***************************************************************************)
(* One request: APIWorker.run calls APIClient.send_message, the provider's *)
(* method posts it and reads the reply, run emits a signal and the window's *)
(* slot shows the outcome.                                                 *)
(***************************************************************************)
\* APIProvider
Providers == {"OpenAI", "Anthropic (Claude)", "Google (Gemini)", "HuggingFace", "Cohere",
              "LM Studio (Local)", "Ollama (Local)", "Custom API"}

\* the status codes of the replies: 200, another success code, the codes the
\* methods name, and a server error
Statuses == {200, 201, 401, 404, 429, 500, 503}

\* the bodies of the replies: the configured provider's success shape holding a
\* text, the same shape holding null for the text, an object of another shape
\* ({"error": {"message": ...}}), the empty list, and a body that is no JSON
Bodies == {"expected", "null_text", "error_object", "list", "not_json"}

\* what requests.post gives: a reply, or requests.exceptions.Timeout or
\* ConnectionError
Replies ==
    {[transport |-> "ok", status |-> s, body |-> b] : s \in Statuses, b \in Bodies}
    \cup {[transport |-> t, status |-> 0, body |-> ""] : t \in {"Timeout", "ConnectionError"}}

\* what a method call ends with: a text returned, None returned, an exception
Text == [kind |-> "text", type |-> "str"]
NoneValue == [kind |-> "None", type |-> "NoneType"]
Raise(type) == [kind |-> "exception", type |-> type]

\* response.json() followed by the subscripts of the provider's success shape
Subscripted(body) ==
    IF body = "expected" THEN Text
    ELSE IF body = "null_text" THEN NoneValue
    ELSE IF body = "error_object" THEN Raise("KeyError")
    ELSE IF body = "list" THEN Raise("TypeError")
    ELSE Raise("JSONDecodeError")

\* error_data = response.json(); raise Exception(error_data.get(...)...)
RaiseFromBody(body) ==
    IF body = "not_json" THEN Raise("JSONDecodeError")
    ELSE IF body = "list" THEN Raise("AttributeError")
    ELSE Raise("Exception")

\* _handle_openai_errors without its last branch: the three named codes only
_handle_openai_errors_KnownOnly(response) ==
    IF response.status \in {401, 429, 404} THEN Raise("Exception") ELSE Text

\* APIClient._handle_openai_errors: what it raises, Text when it returns
_handle_openai_errors(response) ==
    IF response.status \in {401, 429, 404} THEN Raise("Exception")
    ELSE IF response.status # 200 THEN RaiseFromBody(response.body)
    ELSE Text

_send_openai_message(response) ==
    IF _handle_openai_errors(response).kind = "exception"
    THEN _handle_openai_errors(response)
    ELSE Subscripted(response.body)

_send_anthropic_message(response) ==
    IF response.status # 200 THEN RaiseFromBody(response.body)
    ELSE Subscripted(response.body)

_send_google_message(response) ==
    IF response.status # 200 THEN Raise("Exception") ELSE Subscripted(response.body)

\* a list with an entry gives the entry's generated_text, anything else its str()
_send_huggingface_message(response) ==
    IF response.status = 503 THEN Raise("Exception")
    ELSE IF response.status # 200 THEN Raise("Exception")
    ELSE IF response.body = "not_json" THEN Raise("JSONDecodeError")
    ELSE IF response.body = "expected" THEN Text
    ELSE IF response.body = "null_text" THEN NoneValue
    ELSE Text

_send_cohere_message(response) ==
    IF response.status # 200 THEN RaiseFromBody(response.body)
    ELSE Subscripted(response.body)

_send_lm_studio_message(response) ==
    IF response.status = 404 THEN Raise("Exception")
    ELSE IF response.status # 200 THEN Raise("Exception")
    ELSE Subscripted(response.body)

_send_ollama_message(response) ==
    IF response.status # 200 THEN Raise("Exception")
    ELSE Subscripted(response.body)

\* a result without one of the four known keys is returned as json.dumps(result)
_send_custom_message(response) ==
    IF response.status # 200 THEN Raise("Exception")
    ELSE IF response.body = "not_json" THEN Raise("JSONDecodeError")
    ELSE IF response.body = "expected" THEN Text
    ELSE IF response.body = "null_text" THEN NoneValue
    ELSE Text

\* provider_methods.get(self.config.provider), called: an exception of
\* requests.post leaves the method, as Exception from the two local providers'
\* methods when it is a ConnectionError
provider_methods(p, response) ==
    IF response.transport # "ok"
    THEN IF response.transport = "ConnectionError"
            /\ p \in {"LM Studio (Local)", "Ollama (Local)"}
         THEN Raise("Exception")
         ELSE Raise(response.transport)
    ELSE IF p = "OpenAI" THEN _send_openai_message(response)
    ELSE IF p = "Anthropic (Claude)" THEN _send_anthropic_message(response)
    ELSE IF p = "Google (Gemini)" THEN _send_google_message(response)
    ELSE IF p = "HuggingFace" THEN _send_huggingface_message(response)
    ELSE IF p = "Cohere" THEN _send_cohere_message(response)
    ELSE IF p = "LM Studio (Local)" THEN _send_lm_studio_message(response)
    ELSE IF p = "Ollama (Local)" THEN _send_ollama_message(response)
    ELSE _send_custom_message(response)

\* APIClient.send_message around the method: Timeout, ConnectionError and every
\* other exception of the method leave as a new Exception
APIClient_send_message(p, response) ==
    IF provider_methods(p, response).kind = "exception" THEN Raise("Exception")
    ELSE provider_methods(p, response)

\* APIWorker.run is entered with a client of some provider
ClientInitial ==
    /\ provider \in Providers
    /\ reply = [transport |-> "", status |-> 0, body |-> ""]
    /\ cpc = "run"
    /\ result = [kind |-> "", type |-> ""]
    /\ signal = ""
    /\ parsed = FALSE
    /\ shown = ""

\* requests.post in the provider's method: the server's reply, or no reply
Post ==
    /\ cpc = "run"
    /\ \E r \in Replies : reply' = r
    /\ cpc' = "posted"
    /\ UNCHANGED <<provider, result, signal, parsed, shown>>
    /\ UNCHANGED <<vars, app_vars, calls_vars>>

\* the rest of the provider's method and of APIClient.send_message
Answer ==
    /\ cpc = "posted"
    /\ result' = APIClient_send_message(provider, reply)
    /\ cpc' = "answered"
    /\ UNCHANGED <<provider, reply, signal, parsed, shown>>
    /\ UNCHANGED <<vars, app_vars, calls_vars>>

\* APIWorker.run after the call: response_ready.emit(response); an exception of
\* the call, or of emit for a response that is no text, is emitted as
\* error_occurred
Emit ==
    /\ cpc = "answered"
    /\ signal' = IF result.kind = "text" THEN "response_ready" ELSE "error_occurred"
    /\ cpc' = "emitted"
    /\ UNCHANGED <<provider, reply, result, parsed, shown>>
    /\ UNCHANGED <<vars, app_vars, calls_vars>>

\* the slot of response_ready: the response is parsed and a recipe widget added
ShowResponse ==
    /\ cpc = "emitted" /\ signal = "response_ready"
    /\ parsed' = TRUE
    /\ shown' = "recipe"
    /\ cpc' = "handled"
    /\ UNCHANGED <<provider, reply, result, signal>>
    /\ UNCHANGED <<vars, app_vars, calls_vars>>

\* the slot of error_occurred: an error widget is added
ShowError ==
    /\ cpc = "emitted" /\ signal = "error_occurred"
    /\ shown' = "error"
    /\ cpc' = "handled"
    /\ UNCHANGED <<provider, reply, result, signal, parsed>>
    /\ UNCHANGED <<vars, app_vars, calls_vars>>

ClientInit == ClientInitial /\ NoCall /\ AppInitial /\ CallsInitial

ClientNext == Post \/ Answer \/ Emit \/ ShowResponse \/ ShowError

ClientSpec == ClientInit /\ [][ClientNext]_<<vars, app_vars, calls_vars, client_vars>>

(***************************************************************************)
(* What the claims speak of.                                               *)
(***************************************************************************)
Returned == pc = "returned"

\* a key that is not in the object
Absent == [t |-> "absent", v |-> <<>>]

\* the six scalar fields: field of the record, key, alternate key
ScalarFields ==
    {<<"name", K_name, K_title>>, <<"description", K_description, K_description>>,
     <<"prep_time", K_prep_time, K_prepTime>>, <<"cook_time", K_cook_time, K_cookTime>>,
     <<"servings", K_servings, K_servings>>, <<"difficulty", K_difficulty, K_difficulty>>}

\* the value the object gives a field: under its key, else under the alternate key
SourceOf(d, f) ==
    IF HasKey(d, f[2]) THEN Get(d, f[2], Absent)
    ELSE IF HasKey(d, f[3]) THEN Get(d, f[3], Absent)
    ELSE Absent

RenameKey(d, from, to) ==
    PyDict([i \in 1..Len(d.v) |-> IF d.v[i][1] = from THEN <<to, d.v[i][2]>> ELSE d.v[i]])

RemoveKey(d, k) == PyDict(SelectSeq(d.v, LAMBDA it : it[1] # k))

\* C1: parse_response returns a record for every text and lets no error out
C1_NeverRaises == pc # "raised" /\ raised = ""

\* C2: every scalar field, every element of instructions, tips and tags and every
\* nutrition value of a returned record is text
C2_LeavesAreText ==
    Returned =>
        /\ \A f \in ScalarFields : recipe[f[1]].t = "str"
        /\ \A f \in {"instructions", "tips", "tags"} :
              \A i \in 1..Len(recipe[f]) : recipe[f][i].t = "str"
        /\ \A i \in 1..Len(recipe.nutrition) : recipe.nutrition[i][2].t = "str"

\* C3: the name of a returned record is never empty (nor null)
C3_NameNonEmpty ==
    Returned => recipe.name # PyStr(<<>>) /\ recipe.name # PyNone

\* C4: every element of ingredients of a returned record is a pair with the keys
\* amount and item, both holding text
C4_IngredientsArePairs ==
    Returned =>
        \A i \in 1..Len(recipe.ingredients) :
            LET g == recipe.ingredients[i]
            IN  /\ g.t = "dict"
                /\ HasKey(g, K_amount) /\ Get(g, K_amount, PyNone).t = "str"
                /\ HasKey(g, K_item) /\ Get(g, K_item, PyNone).t = "str"

\* C5: a scalar field whose source value is null comes out as the empty text, a
\* number as its digits, a boolean as text
C5_NullBecomesEmpty ==
    (Returned /\ via = "json") =>
        \A f \in ScalarFields :
            LET src == SourceOf(data, f)
            IN  /\ src = PyNone => recipe[f[1]] = PyStr(<<>>)
                /\ src.t = "int" => recipe[f[1]] = PyStr(IntToText(src.v))
                /\ src.t = "bool" => recipe[f[1]].t = "str"

\* the span handed to _clean_json runs from the leftmost '{' to the rightmost '}'
SpanIsOutermost ==
    pc = "clean" =>
        LET i == CHOOSE k \in 1..Len(text) :
                    text[k] = "{" /\ \A m \in 1..(k - 1) : text[m] # "{"
            j == CHOOSE k \in 1..Len(text) :
                    text[k] = "}" /\ \A m \in (k + 1)..Len(text) : text[m] # "}"
        IN  json_str = SubSeq(text, i, j)

\* a text with no '}' after its leftmost '{', or no '{', goes to the fallback
\* directly: json.loads is never called
NoSpanFallsBack ==
    (pc # "search"
        /\ ~\E i \in 1..Len(text) :
                text[i] = "{" /\ \E j \in (i + 1)..Len(text) : text[j] = "}") =>
        /\ loads_calls = 0
        /\ pc \in {"plain_text", "returned"}
        /\ via \in {"", "plain_text"}

\* the text is a valid object followed by something that holds a '}'
ObjectThenBrace == given.fam = "embedded" /\ Contains(given.post, <<"}">>)

\* the record is the fallback's
FellBack == via = "plain_text" /\ recipe = _parse_plain_text(text)

\* C6, as claimed: the span is the outermost one, a text without a span falls back
\* directly, and a valid object followed by a stray '}' always ends in the fallback
C6_StrayBraceFallsBack ==
    /\ SpanIsOutermost
    /\ NoSpanFallsBack
    /\ (Returned /\ ObjectThenBrace) => FellBack

\* C6, amended: as claimed, for a valid object whose text holds no '/*'
C6_StrayBraceFallsBackNoBlockOpen ==
    /\ SpanIsOutermost
    /\ NoSpanFallsBack
    /\ (Returned /\ ObjectThenBrace
           /\ ~Contains(Dumps(given.obj, given.style), <<"/", "*">>)) => FellBack

C6_Witness ==
    /\ Returned /\ ObjectThenBrace /\ given.pre = <<>>
    /\ ~Contains(Dumps(given.obj, given.style), <<"/", "*">>)
    /\ loads_calls = 1 /\ via = "plain_text"

C8_RoundTrip ==
    (Returned /\ given.fam = "canonical") => recipe = RecordOf(given.obj)

\* C8, amended: a canonical object comes back field by field when none of its
\* string literals holds a comma before '}' or ']' (across white space), '//' or '/*'
C8_RoundTripUnrewritable ==
    (pc \in {"returned", "raised"} /\ given.fam = "canonical" /\ Unrewritable(given.obj)) =>
        /\ Returned /\ via = "json"
        /\ recipe = RecordOf(given.obj)

C8_Witness ==
    /\ Returned /\ given.fam = "canonical" /\ Unrewritable(given.obj)
    /\ given.style = Lined
    /\ recipe.name = PyStr(T_Harmless)
    /\ recipe.instructions[2] = PyStr(T_Quoted)

\* C9: an object with the alternate key only gives the record of the object with
\* the canonical key; with both keys the canonical key's value is used
C9_SynonymEquivalence ==
    (Returned /\ via = "json") =>
        \A p \in Synonyms :
            /\ (HasKey(data, p[2]) /\ ~HasKey(data, p[1])) =>
                  recipe = _parse_json_to_recipe(RenameKey(data, p[2], p[1]))
            /\ (HasKey(data, p[2]) /\ HasKey(data, p[1])) =>
                  recipe = _parse_json_to_recipe(RemoveKey(data, p[2]))

C9_Witness ==
    /\ Returned /\ via = "json"
    /\ HasKey(data, K_steps) /\ ~HasKey(data, K_instructions)
    /\ recipe.instructions = <<PyStr(<<"a">>), PyStr(<<"b">>)>>

\* C10, as claimed: an object written with a comma before a closing '}' or ']'
\* decodes, and the record is the record of the object
C10_TrailingComma ==
    (pc \in {"returned", "raised"} /\ given.fam = "trailing") =>
        /\ Returned /\ via = "json"
        /\ data = given.obj
        /\ recipe = _parse_json_to_recipe(given.obj)

\* C10, amended: as claimed, when no string literal of the object holds a comma
\* before '}' or ']' (across white space), '//' or '/*'
C10_TrailingCommaUnrewritable ==
    (pc \in {"returned", "raised"} /\ given.fam = "trailing" /\ Unrewritable(given.obj)) =>
        /\ Returned /\ via = "json"
        /\ data = given.obj
        /\ recipe = _parse_json_to_recipe(given.obj)

C10_Witness ==
    /\ Returned /\ via = "json" /\ given.fam = "trailing" /\ Unrewritable(given.obj)
    /\ given.style.bracket = <<",", NEWLINE, " ">>
    /\ recipe.tags = <<PyStr(<<"a">>), PyStr(<<"b">>)>>

\* a line with no white space around it and no bullet or number before it
Unprefixed(line) ==
    /\ line # <<>>
    /\ ~IsSpace(line[1]) /\ ~IsSpace(line[Len(line)])
    /\ line[1] \notin {"-", BULLET, "*"}
    /\ ~\E k \in 2..Len(line) : line[k] = "." /\ \A m \in 1..(k - 1) : IsDigit(line[m])

\* the record holds the tokenizer's result for each ingredient line and each step
\* line itself, in the order of the text
LineByLine ==
    /\ recipe.ingredients =
          [i \in 1..Len(given.ingredient_lines) |->
              _parse_ingredient_string(given.ingredient_lines[i])]
    /\ recipe.instructions =
          [i \in 1..Len(given.step_lines) |-> PyStr(given.step_lines[i])]

\* C11, as claimed: a text of an ingredients section and an instructions section
\* gives the tokenizer's result for each ingredient line and the step lines
C11_Sections ==
    (Returned /\ given.fam = "sections") => via = "plain_text" /\ LineByLine

\* C11, amended: as claimed, for lines with no white space around them and no
\* bullet or number before them
C11_SectionsUnprefixed ==
    (/\ Returned /\ given.fam = "sections"
     /\ \A i \in 1..Len(given.ingredient_lines) : Unprefixed(given.ingredient_lines[i])
     /\ \A j \in 1..Len(given.step_lines) : Unprefixed(given.step_lines[j])) =>
        via = "plain_text" /\ LineByLine

C11_Witness ==
    /\ Returned /\ given.fam = "sections"
    /\ given.ingredient_lines = <<L_Flour, L_Salt>> /\ given.step_lines = <<L_Mix>>
    /\ recipe.ingredients =
          <<Ingredient(<<"2", " ", "c", "u", "p", "s">>, <<"f", "l", "o", "u", "r">>), Ingredient(<<"1", " ", "t", "s", "p">>, <<"s", "a", "l", "t">>)>>
    /\ recipe.instructions = <<PyStr(L_Mix)>>

\* C12: the line "<integer> (<size>) <rest>" gives the amount "<integer> (<size>)"
\* and the item <rest>
C12_ParenthesizedSize ==
    (Returned /\ given.fam = "sections") =>
        \A i \in 1..Len(given.ingredient_lines) :
            given.ingredient_lines[i] = L_Can =>
                /\ Len(recipe.ingredients) = Len(given.ingredient_lines)
                /\ recipe.ingredients[i] = Ingredient(<<"1", " ", "(", "1", "5", " ", "o", "z", ")">>, <<"c", "a", "n", " ", "t", "o", "m", "a", "t", "o", "e", "s">>)

\* the record as an object under the canonical field names
AsObject(r) ==
    PyDict(<< <<K_name, r.name>>, <<K_description, r.description>>,
              <<K_prep_time, r.prep_time>>, <<K_cook_time, r.cook_time>>,
              <<K_servings, r.servings>>, <<K_difficulty, r.difficulty>>,
              <<K_ingredients, PyList(r.ingredients)>>,
              <<K_instructions, PyList(r.instructions)>>,
              <<K_tips, PyList(r.tips)>>, <<K_tags, PyList(r.tags)>>,
              <<K_nutrition, PyDict(r.nutrition)>> >>)

\* the record written out as JSON decodes, and normalizes to r
FixedPoint(r) ==
    LET again == json_loads(Dumps(AsObject(r), Compact))
    IN  again.e = "" /\ _parse_json_to_recipe(again.v) = r

\* C13: the record of a decoded object, written out as a JSON object under the
\* canonical names, decoded and normalized again, is the same record
C13_Idempotence ==
    (Returned /\ via = "json") => FixedPoint(recipe)

C13_Witness ==
    /\ Returned /\ via = "json" /\ given.fam = "object"
    /\ HasKey(data, K_steps)
    /\ Get(data, K_steps, PyNone).t = "list" /\ Len(Get(data, K_steps, PyNone).v) = 3
    /\ Len(recipe.instructions) = 3
    /\ recipe.instructions[2] = PyStr(<<"N", "o", "n", "e">>)
    /\ FixedPoint(recipe)

\* the keys that hold a list or a mapping, with the type they are to hold
ShapedKeys ==
    {<<K_ingredients, "list">>, <<K_instructions, "list">>, <<K_tips, "list">>,
     <<K_tags, "list">>, <<K_nutrition, "dict">>}

\* C14: a list or mapping key that holds a value of another type counts as absent:
\* the record is the record of the object without that key
C14_WrongShapeIsAbsent ==
    (Returned /\ via = "json") =>
        \A k \in ShapedKeys :
            (HasKey(data, k[1]) /\ Get(data, k[1], PyNone).t # k[2]) =>
                recipe = _parse_json_to_recipe(RemoveKey(data, k[1]))

\* the workers started whose response or error has not been emitted yet
Outstanding == {w \in 1..Len(workers) : workers[w].state \in {"started", "requesting"}}

\* C15: at most one request is outstanding at any moment, whatever the user sends,
\* clears or saves
C15_OneOutstanding == Cardinality(Outstanding) <= 1

\* the widgets added to show the outcome of worker w
OutcomesOf(w) ==
    {i \in 1..Len(widgets) : widgets[i].of = w /\ widgets[i].kind \in {"recipe", "error"}}

\* C16: a send that was accepted makes one call of APIClient.send_message and one
\* HTTP request, emits one signal, and once the signal is handled the chat holds one
\* widget for it: a recipe widget for response_ready, an error widget for
\* error_occurred
C16_OneOutcome ==
    \A w \in 1..Len(workers) :
        /\ workers[w].calls <= 1
        /\ workers[w].requests <= 1
        /\ Len(workers[w].emitted) <= 1
        /\ workers[w].state \in {"emitted", "finished"} =>
              /\ workers[w].calls = 1 /\ workers[w].requests = 1
              /\ Len(workers[w].emitted) = 1
        /\ workers[w].handled =>
              /\ Cardinality(OutcomesOf(w)) = 1
              /\ \A i \in OutcomesOf(w) :
                    widgets[i].kind =
                        (IF workers[w].emitted[1] = "response_ready" THEN "recipe" ELSE "error")

\* the containers a call's record refers to
ContainersOf(c) == {calls[c].refs[f] : f \in Fields}

\* the record a call returned, as its caller sees it
RecordSeen(c) == [f \in Fields |-> heap[calls[c].refs[f][1]][calls[c].refs[f][2]]]

\* the record parse_response returns for the text alone, with what the caller of
\* call c added to it
RecordAlone(c) ==
    [f \in Fields |->
        texts[calls[c].text].alone[f]
            \o (IF calls[c].marked THEN <<Mark(f)>> ELSE <<>>)]

\* C17: the parser holds no state between calls: however calls on one parser
\* interleave, the record of each call that returned is the record the call gives
\* alone (with its own caller's additions), and the records of two calls share no
\* list and no mapping
C17_Stateless ==
    /\ \A c \in 1..Len(calls) :
          calls[c].state = "returned" => RecordSeen(c) = RecordAlone(c)
    /\ \A c, d \in 1..Len(calls) :
          (c # d /\ calls[c].state # "called" /\ calls[d].state # "called")
             => ContainersOf(c) \cap ContainersOf(d) = {}

\* a call has returned a record with two ingredients and its caller has added to
\* the record, while a later call is in the middle of its writes
C17_Witness ==
    /\ Len(calls) = 2
    /\ calls[1].state = "returned" /\ calls[1].marked
    /\ Len(RecordSeen(1).ingredients) = 3
    /\ calls[2].state = "constructed"
    /\ 0 < calls[2].done /\ calls[2].done < Len(texts[calls[2].text].writes)

\* the segmenter before its first line
SegmentStart ==
    [current_section |-> "",
     recipe |-> [ParsedRecipe EXCEPT !.name = PyStr(<<"R", "e", "c", "i", "p", "e">>)]]

\* the segmenter after the first n of the lines
SegmentAfter(lines, n) == SegmentLines(SegmentStart, SubSeq(lines, 1, n), 1)

\* the call has returned from the fallback for a text made of lines
ReturnedLines == Returned /\ via = "plain_text" /\ given.fam \in {"lines", "sections"}

\* the sequences the segmenter appends to
Sections == {"ingredients", "instructions", "tips"}

\* the line is 'Step <digits>:' and more, in any letter case
BeginsWithStep(line) ==
    LET a == SkipSpace(line, 5)
        b == SkipDigits(line, a)
    IN  /\ At(Lower(line), 1, <<"s", "t", "e", "p">>)
        /\ a > 5 /\ b > a /\ b <= Len(line) /\ line[b] = ":"

\* C18: a line 'Step N: ...' met while the instructions section is active is
\* appended to instructions without the prefix
C18_StepPrefix ==
    ReturnedLines =>
        LET lines == SplitLines(text)
        IN  \A i \in 1..Len(lines) :
                (/\ SegmentAfter(lines, i - 1).current_section = "instructions"
                 /\ BeginsWithStep(Strip(lines[i]))) =>
                    SegmentAfter(lines, i).recipe.instructions =
                        Append(SegmentAfter(lines, i - 1).recipe.instructions,
                               PyStr(StripStep(Strip(lines[i]))))

\* a line of white space alone
IsBlank(line) == Strip(line) = <<>>

\* the section a non-blank line selects by the keywords it holds ("" when it holds
\* none): "ingredient" first, then "instruction", "direction" and "step", then
\* "tip" and "note"
Selected(line) ==
    LET has(word) == Contains(Lower(Strip(line)), word)
    IN  IF has(<<"i", "n", "g", "r", "e", "d", "i", "e", "n", "t">>) THEN "ingredients"
        ELSE IF \/ has(<<"i", "n", "s", "t", "r", "u", "c", "t", "i", "o", "n">>)
                \/ has(<<"d", "i", "r", "e", "c", "t", "i", "o", "n">>)
                \/ has(<<"s", "t", "e", "p">>) THEN "instructions"
        ELSE IF has(<<"t", "i", "p">>) \/ has(<<"n", "o", "t", "e">>) THEN "tips"
        ELSE ""

IsHeader(line) == ~IsBlank(line) /\ Selected(line) # ""

IsData(line) == ~IsBlank(line) /\ Selected(line) = ""

\* what is left of a data line of a section once its prefixes are removed
Cleaned(section, line) ==
    IF section = "ingredients" THEN StripNumber(StripBullet(Strip(line)))
    ELSE IF section = "instructions" THEN StripStep(StripNumber(StripBullet(Strip(line))))
    ELSE StripBullet(Strip(line))

\* sequence s of the record after the pass is sequence s before it and one entry
AppendedTo(before, after, s) ==
    /\ Len(after.recipe[s]) = Len(before.recipe[s]) + 1
    /\ SubSeq(after.recipe[s], 1, Len(before.recipe[s])) = before.recipe[s]
    /\ \A o \in Sections \ {s} : after.recipe[o] = before.recipe[o]

\* the segmenter before each of the lines from line i on, and after the last
RECURSIVE SegmentTrace(_, _, _)
SegmentTrace(st, lines, i) ==
    IF i > Len(lines) THEN <<st>>
    ELSE <<st>> \o SegmentTrace(SegmentLine(st, lines[i]), lines, i + 1)

\* a pass over a line: the section changes on a header line alone and never
\* returns to none, and a data line met before the first header is dropped
Move(line, before, after) ==
    /\ ~IsHeader(line) => after.current_section = before.current_section
    /\ IsHeader(line) => after.current_section \in Sections
    /\ before.current_section # "" => after.current_section # ""
    /\ (IsData(line) /\ before.current_section = "") => after.recipe = before.recipe

\* the section starts as none and every pass is a move
SectionMoves(lines, trace) ==
    /\ trace[1].current_section = ""
    /\ \A i \in 1..Len(lines) : Move(lines[i], trace[i], trace[i + 1])

\* every data line met after a header is appended to the sequence of the section
\* the last header named and to no other
DataAppended(lines, trace) ==
    \A i \in 1..Len(lines) :
        (IsData(lines[i]) /\ trace[i].current_section # "") =>
            AppendedTo(trace[i], trace[i + 1], trace[i].current_section)

\* the same for the data lines of which something is left once their prefixes are
\* removed; a data line of which nothing is left is dropped
CleanedAppended(lines, trace) ==
    \A i \in 1..Len(lines) :
        (IsData(lines[i]) /\ trace[i].current_section # "") =>
            IF Cleaned(trace[i].current_section, lines[i]) # <<>>
            THEN AppendedTo(trace[i], trace[i + 1], trace[i].current_section)
            ELSE trace[i + 1].recipe = trace[i].recipe

\* the moves and the appends of the segmenter over the lines
SectionMachine(lines, trace) == SectionMoves(lines, trace) /\ DataAppended(lines, trace)

SectionMachineCleaned(lines, trace) ==
    SectionMoves(lines, trace) /\ CleanedAppended(lines, trace)

\* C19, as claimed: the section starts as none, changes on header lines alone and
\* never returns to none; a data line met before the first header is dropped, and
\* every data line met after a header is appended to the sequence of the section
\* the last header named and to no other
C19_SectionMachine ==
    ReturnedLines =>
        SectionMachine(SplitLines(text), SegmentTrace(SegmentStart, SplitLines(text), 1))

\* C19, amended: as claimed, for the data lines of which something is left once
\* their prefixes are removed; a data line of which nothing is left is dropped
C19_SectionMachineCleaned ==
    ReturnedLines =>
        SectionMachineCleaned(SplitLines(text),
                              SegmentTrace(SegmentStart, SplitLines(text), 1))

\* a data line before the first header was dropped and the same line after the
\* header was appended
C19_Witness ==
    /\ ReturnedLines /\ given.fam = "lines"
    /\ SplitLines(text) = <<L_Flour, <<"I", "n", "g", "r", "e", "d", "i", "e", "n", "t", "s", ":">>, L_Flour>>
    /\ recipe.ingredients =
          <<Ingredient(<<"2", " ", "c", "u", "p", "s">>, <<"f", "l", "o", "u", "r">>)>>

\* C20: a non-blank line that holds a keyword selects the section by the fixed
\* priority, in every section state, and is appended to no sequence
C20_HeaderPriority ==
    ReturnedLines =>
        LET lines == SplitLines(text)
        IN  \A i \in 1..Len(lines) :
               IsHeader(lines[i]) =>
                  /\ SegmentAfter(lines, i).current_section = Selected(lines[i])
                  /\ SegmentAfter(lines, i).recipe = SegmentAfter(lines, i - 1).recipe

\* 'Tips on ingredients' met in the tips section selects ingredients, and the line
\* after it is taken as an ingredient
C20_Witness ==
    /\ ReturnedLines /\ given.fam = "lines"
    /\ SplitLines(text) =
          <<<<"T", "i", "p", "s">>,
            <<"T", "i", "p", "s", " ", "o", "n", " ", "i", "n", "g", "r", "e", "d", "i", "e", "n", "t", "s">>,
            L_Flour>>
    /\ recipe.tips = <<>>
    /\ recipe.ingredients =
          <<Ingredient(<<"2", " ", "c", "u", "p", "s">>, <<"f", "l", "o", "u", "r">>)>>

\* the entry a data line gives its section once its bullet and its list number
\* are removed
Unnumbered(section, line) ==
    LET cleaned == StripNumber(StripBullet(Strip(line)))
    IN  IF section = "ingredients" THEN _parse_ingredient_string(cleaned)
        ELSE IF section = "instructions" THEN PyStr(StripStep(cleaned))
        ELSE PyStr(cleaned)

\* every entry a data line added to the sequence of its section is the line without
\* its bullet and its list number
PrefixesRemoved(lines, trace) ==
    \A i \in 1..Len(lines) :
        LET s == trace[i].current_section
        IN  (/\ IsData(lines[i]) /\ s # ""
             /\ Len(trace[i + 1].recipe[s]) > Len(trace[i].recipe[s])) =>
                trace[i + 1].recipe[s][Len(trace[i + 1].recipe[s])] =
                    Unnumbered(s, lines[i])

\* C21: in whichever section is active, a data line is appended without its leading
\* bullet and without its leading list number
C21_PrefixesRemoved ==
    ReturnedLines =>
        PrefixesRemoved(SplitLines(text), SegmentTrace(SegmentStart, SplitLines(text), 1))

\* the vocabulary of the fallback: each keyword with the tag it is shown as
Vocabulary ==
    <<<<<<"h", "e", "a", "l", "t", "h", "y">>,
       <<"H", "e", "a", "l", "t", "h", "y">>>>,
     <<<<"q", "u", "i", "c", "k">>,
       <<"Q", "u", "i", "c", "k">>>>,
     <<<<"e", "a", "s", "y">>,
       <<"E", "a", "s", "y">>>>,
     <<<<"v", "e", "g", "e", "t", "a", "r", "i", "a", "n">>,
       <<"V", "e", "g", "e", "t", "a", "r", "i", "a", "n">>>>,
     <<<<"v", "e", "g", "a", "n">>,
       <<"V", "e", "g", "a", "n">>>>,
     <<<<"g", "l", "u", "t", "e", "n", "-", "f", "r", "e", "e">>,
       <<"G", "l", "u", "t", "e", "n", " ", "F", "r", "e", "e">>>>,
     <<<<"d", "a", "i", "r", "y", "-", "f", "r", "e", "e">>,
       <<"D", "a", "i", "r", "y", " ", "F", "r", "e", "e">>>>,
     <<<<"l", "o", "w", "-", "c", "a", "r", "b">>,
       <<"L", "o", "w", " ", "C", "a", "r", "b">>>>,
     <<<<"k", "e", "t", "o">>,
       <<"K", "e", "t", "o">>>>,
     <<<<"p", "a", "l", "e", "o">>,
       <<"P", "a", "l", "e", "o">>>>,
     <<<<"b", "u", "d", "g", "e", "t", "-", "f", "r", "i", "e", "n", "d", "l", "y">>,
       <<"B", "u", "d", "g", "e", "t", " ", "F", "r", "i", "e", "n", "d", "l", "y">>>>,
     <<<<"f", "a", "m", "i", "l", "y", "-", "f", "r", "i", "e", "n", "d", "l", "y">>,
       <<"F", "a", "m", "i", "l", "y", " ", "F", "r", "i", "e", "n", "d", "l", "y">>>>,
     <<<<"m", "e", "a", "l", "-", "p", "r", "e", "p">>,
       <<"M", "e", "a", "l", " ", "P", "r", "e", "p">>>>,
     <<<<"o", "n", "e", "-", "p", "o", "t">>,
       <<"O", "n", "e", " ", "P", "o", "t">>>>,
     <<<<"3", "0", "-", "m", "i", "n", "u", "t", "e">>,
       <<"3", "0", " ", "M", "i", "n", "u", "t", "e">>>>,
     <<<<"1", "5", "-", "m", "i", "n", "u", "t", "e">>,
       <<"1", "5", " ", "M", "i", "n", "u", "t", "e">>>>>>

\* the entries of the vocabulary whose keyword occurs in the lower-cased text
Occurring(text_lower) ==
    {i \in 1..Len(Vocabulary) : Contains(text_lower, Vocabulary[i][1])}

\* the tags are one tag for each of the entries, and nothing else
TagsAre(tags, entries) ==
    /\ Len(tags) = Cardinality(entries)
    /\ \A i \in entries :
          Cardinality({j \in 1..Len(tags) : tags[j] = PyStr(Vocabulary[i][2])}) = 1

\* C22: the tags of the fallback are one tag for each keyword of the vocabulary
\* that occurs in the whole text in any letter case, title-cased and with its
\* hyphens turned to spaces, however often the keyword occurs
C22_Tags ==
    (Returned /\ via = "plain_text") => TagsAre(recipe.tags, Occurring(Lower(text)))

\* the reply of three sections, whose last line holds 'keto', 'Gluten-Free' and
\* 'KETO', has returned with two tags
C22_Witness ==
    /\ Returned /\ via = "plain_text" /\ given.fam = "lines"
    /\ Len(SplitLines(text)) = 7
    /\ Cardinality({i \in 1..(Len(text) - 3) : At(Lower(text), i, <<"k", "e", "t", "o">>)}) = 2
    /\ recipe.tags = <<PyStr(<<"G", "l", "u", "t", "e", "n", " ", "F", "r", "e", "e">>),
                       PyStr(<<"K", "e", "t", "o">>)>>

\* the rules of the tokenizer in the order of the list
Rule(k, s) ==
    IF k = 1 THEN Pattern1(s)
    ELSE IF k = 2 THEN Pattern2(s)
    ELSE IF k = 3 THEN Pattern3(s)
    ELSE Pattern4(s)

\* the split a rule gives: the first two groups joined by a space, the third
SplitOf(m) == Ingredient(Strip(m[1] \o <<" ">> \o m[2]), Strip(m[3]))

\* a number or a range, then two or more words, one space between them
NumberUnitRest(ts) ==
    /\ Len(ts) >= 3
    /\ ts[1] \in Numbers \cup Ranges
    /\ \A i \in 2..Len(ts) : ts[i] \in Words

\* the unit is one word when two words follow the number, two words when more do
UnitWords(ts) == IF Len(ts) = 3 THEN 1 ELSE 2

\* C23: the ingredient of a line is the split of the first rule of the list
\* that matches the trimmed line; for a number or a range, a unit and a rest the
\* amount is the number or range followed by the unit, and the item is the rest
C23_FirstRuleWins ==
    (Returned /\ given.fam = "tokens") =>
        LET s == Strip(given.line)
            ts == given.tokens
        IN  /\ via = "json" /\ Len(recipe.ingredients) = 1
            /\ \A k \in 1..4 :
                  (Rule(k, s) # <<>> /\ \A j \in 1..(k - 1) : Rule(j, s) = <<>>) =>
                      recipe.ingredients[1] = SplitOf(Rule(k, s))
            /\ NumberUnitRest(ts) =>
                  recipe.ingredients[1] =
                      Ingredient(JoinWith(SubSeq(ts, 1, 1 + UnitWords(ts)), <<" ">>),
                                 JoinWith(SubSeq(ts, 2 + UnitWords(ts), Len(ts)), <<" ">>))

\* '1/2 cup flour', which the first and the second rule match, has been tokenized
C23_Witness ==
    /\ Returned /\ given.fam = "tokens"
    /\ given.tokens = <<<<"1", "/", "2">>, <<"c", "u", "p">>, <<"f", "l", "o", "u", "r">>>>
    /\ Pattern1(given.line) # <<>> /\ Pattern2(given.line) # <<>>
    /\ recipe.ingredients =
          <<Ingredient(<<"1", "/", "2", " ", "c", "u", "p">>, <<"f", "l", "o", "u", "r">>)>>

\* the places of the tokens that are not empty
Filled(ts) == {i \in 1..Len(ts) : ts[i] # <<>>}

\* the tokens of the trimmed line: without the empty tokens at both ends
TrimEmpty(ts) ==
    IF Filled(ts) = {} THEN <<>>
    ELSE SubSeq(ts, Least(Filled(ts)),
                CHOOSE i \in Filled(ts) : \A j \in Filled(ts) : j <= i)

\* no rule of the tokenizer matches s
NoRule(s) == \A k \in 1..4 : Rule(k, s) = <<>>

DigitLed(s) == Len(s) > 0 /\ IsDigit(s[1])

\* C24, as claimed: without a matching rule a digit-led line is divided at runs
\* of white space into at most three parts; the amount is the first two parts
\* joined by a space, the item the third part, or the second without a third;
\* every other line is the item, with an empty amount
C24_WhitespaceSplit ==
    (pc \in {"returned", "raised"} /\ given.fam = "tokens" /\ NoRule(Strip(given.line))) =>
        LET ws == SelectSeq(given.tokens, LAMBDA t : t # <<>>)
            second == Least(Filled(given.tokens) \ {Least(Filled(given.tokens))})
            rest == TrimEmpty(SubSeq(given.tokens, second + 1, Len(given.tokens)))
        IN  /\ Returned /\ via = "json" /\ Len(recipe.ingredients) = 1
            /\ recipe.ingredients[1] =
                  IF DigitLed(Strip(given.line)) /\ Len(ws) >= 2
                  THEN Ingredient(ws[1] \o <<" ">> \o ws[2],
                                  IF Len(ws) > 2 THEN JoinWith(rest, <<" ">>) ELSE ws[2])
                  ELSE Ingredient(<<>>, Strip(given.line))

\* C24, amended: as claimed, with the line divided at its first two space
\* characters (an empty part between two adjacent spaces), the amount trimmed,
\* and the third part as it stands after the second space
C24_SpaceSplit ==
    (pc \in {"returned", "raised"} /\ given.fam = "tokens" /\ NoRule(Strip(given.line))) =>
        LET us == TrimEmpty(given.tokens)
        IN  /\ Returned /\ via = "json" /\ Len(recipe.ingredients) = 1
            /\ recipe.ingredients[1] =
                  IF DigitLed(Strip(given.line)) /\ Len(us) >= 2
                  THEN Ingredient(Strip(us[1] \o <<" ">> \o us[2]),
                                  IF Len(us) > 2
                                  THEN JoinWith(SubSeq(us, 3, Len(us)), <<" ">>)
                                  ELSE us[2])
                  ELSE Ingredient(<<>>, JoinWith(us, <<" ">>))

\* '2 1.5 cup', which no rule matches, has been divided into three parts
C24_Witness ==
    /\ Returned /\ given.fam = "tokens"
    /\ given.tokens = <<<<"2">>, <<"1", ".", "5">>, <<"c", "u", "p">>>>
    /\ NoRule(given.line)
    /\ recipe.ingredients = <<Ingredient(<<"2", " ", "1", ".", "5">>, <<"c", "u", "p">>)>>

\* C25, as claimed: an object written with comments and trailing commas decodes
\* after _clean_json, and the record is the record of the object without them
C25_CommentsAndCommas ==
    (pc \in {"returned", "raised"} /\ given.fam = "commented") =>
        /\ Returned /\ via = "json"
        /\ data = given.obj
        /\ recipe = _parse_json_to_recipe(given.obj)

\* the comment after a comma between two members, and the block comment before
\* a trailing comma, are taken out and the object decodes
C25_Decoded ==
    /\ Returned /\ via = "json" /\ given.fam = "commented"
    /\ data = given.obj
    /\ \/ HasKey(data, K_tags) /\ Contains(text, <<"/", "/">>)
       \/ ~HasKey(data, K_tags) /\ Contains(text, <<"/", "*">>)

\* the list of a record is the source list entry by entry, as texts
SameAsTexts(out, src) ==
    IsInstance(src, "list") =>
        /\ Len(out) = Len(src.v)
        /\ \A i \in 1..Len(src.v) : out[i] = StrOf(src.v[i])

\* C26, as claimed: ingredients holds one entry for each entry of the source
\* list in its order, a dict as it is and a text as the tokenizer returns it;
\* instructions, tips and tags have the length and the order of their source lists
C26_ListsIntact ==
    (Returned /\ via = "json") =>
        LET ingredients_data == Get(data, K_ingredients, PyList(<<>>))
        IN  /\ IsInstance(ingredients_data, "list") =>
                  /\ Len(recipe.ingredients) = Len(ingredients_data.v)
                  /\ \A i \in 1..Len(ingredients_data.v) :
                        /\ IsInstance(ingredients_data.v[i], "dict") =>
                              recipe.ingredients[i] = ingredients_data.v[i]
                        /\ IsInstance(ingredients_data.v[i], "str") =>
                              recipe.ingredients[i] =
                                  _parse_ingredient_string(ingredients_data.v[i].v)
            /\ SameAsTexts(recipe.instructions,
                           GetEither(data, K_instructions, K_steps, PyList(<<>>)))
            /\ SameAsTexts(recipe.tips, GetEither(data, K_tips, K_notes, PyList(<<>>)))
            /\ SameAsTexts(recipe.tags, GetEither(data, K_tags, K_categories, PyList(<<>>)))

\* every worker started has had its signal handled, and no deletion is pending
Settled ==
    /\ app = "running"
    /\ workers # <<>>
    /\ \A w \in 1..Len(workers) : workers[w].handled
    /\ \A k \in 1..Len(events) : events[k].signal # "DeferredDelete"

\* the loading indicators the chat layout holds
LoadingShown == {i \in 1..Len(widgets) :
                    widgets[i].kind = "loading" /\ \E k \in 1..Len(chat_layout) : chat_layout[k] = i}

\* C27, as claimed: once the signal of every worker started has been handled and
\* the deletions asked for have been done, the chat layout holds no loading
\* indicator
C27_LoadingRemoved == Settled => LoadingShown = {}

\* a handler is next: the signal of a worker is at the head of the window's queue
HandlerNext ==
    /\ app = "running"
    /\ events # <<>>
    /\ Head(events).signal \in {"response_ready", "error_occurred"}

\* C28, as claimed: when _handle_response or _handle_error runs, the widget that
\* self.loading_widget names has not been deleted
C28_LoadingNotDeleted ==
    HandlerNext => (loading_widget # 0 /\ widgets[loading_widget].life # "deleted")

\* a line that carries a list decoration: a leading bullet, or a leading list
\* number (digits, a full stop, then white space or the end of the line)
Decorated(line) ==
    \/ Len(line) > 0 /\ line[1] \in {"-", BULLET, "*"}
    \/ LET a == SkipDigits(line, 1)
       IN  /\ a > 1 /\ a <= Len(line) /\ line[a] = "."
           /\ (a = Len(line) \/ IsSpace(line[a + 1]))

\* every data line of the ingredients section without a decoration is appended as
\* the tokenizer splits the trimmed line
UndecoratedUnchanged(lines, trace) ==
    \A i \in 1..Len(lines) :
        (/\ IsData(lines[i]) /\ trace[i].current_section = "ingredients"
         /\ ~Decorated(Strip(lines[i]))) =>
            /\ AppendedTo(trace[i], trace[i + 1], "ingredients")
            /\ trace[i + 1].recipe.ingredients[Len(trace[i + 1].recipe.ingredients)] =
                  _parse_ingredient_string(Strip(lines[i]))

\* C30, as claimed: on the fallback path an ingredient line without bullet and
\* without list number is tokenized as the tokenizer alone splits it, a decimal
\* quantity included
C30_DecimalKept ==
    ReturnedLines =>
        LET lines == SplitLines(text)
            trace == SegmentTrace(SegmentStart, lines, 1)
        IN  /\ recipe.ingredients = trace[Len(lines) + 1].recipe.ingredients
            /\ UndecoratedUnchanged(lines, trace)

\* C29: whichever the provider, a reply whose status is not 200 is never
\* returned as text: send_message raises, run emits error_occurred, the body is
\* not parsed and an error is shown, no recipe
C29_Non200Raises ==
    (cpc # "run" /\ reply.transport = "ok" /\ reply.status # 200) =>
        /\ result.kind \notin {"text", "None"}
        /\ signal # "response_ready"
        /\ ~parsed /\ shown # "recipe"
        /\ cpc \in {"answered", "emitted", "handled"} => result = Raise("Exception")
        /\ cpc \in {"emitted", "handled"} => signal = "error_occurred"
        /\ cpc = "handled" => shown = "error"

\* the custom provider was sent a reply of status 201 with a body of its success
\* shape, and the window shows an error
C29_Witness ==
    /\ provider = "Custom API"
    /\ reply = [transport |-> "ok", status |-> 201, body |-> "expected"]
    /\ cpc = "handled"
    /\ signal = "error_occurred"
    /\ shown = "error" /\ ~parsed

=============================================================================
